---- MODULE Spec2Model ----
(***************************************************************************)
(* Model of the game upload pipeline of hackclub/shiba                     *)
(* (api/handlers/gameUpload.go): GameUploadHandler and the functions it    *)
(* calls.                                                                  *)
(*                                                                         *)
(* Strings are sequences of one-character strings, so that the lexical     *)
(* path functions (filepath.Clean, filepath.Join, strings.HasPrefix,       *)
(* strings.HasSuffix) are computed character by character as the Go        *)
(* library computes them.  Byte counts are plain integers in bytes.        *)
(***************************************************************************)
EXTENDS Integers, Sequences, FiniteSets, TLC

VARIABLES
    h,        \* h[r]: the local state of the handler invocation serving request r
    fs,       \* the file system: a function from existing absolute paths to nodes
    srv,      \* structs.Server: whether the Airtable credentials are configured
    nextId,   \* the value the next uuid.NewV7() returns (time ordered)
    nextTmp,  \* the random suffix the next os.CreateTemp() picks
    repl,     \* repl[r]: the goroutine running sync.UploadFolder for request r
    probe,    \* one call of a pure function: its argument and its result
    payloads, \* the family of files the clients upload in their requests
    sync      \* the synchronization server: its globals, its loop, its triggers

vars == <<h, fs, srv, nextId, nextTmp, repl, probe, payloads, sync>>

-----------------------------------------------------------------------------
(* Bounds of the model.                                                    *)

\* Longest entry name (in characters) handed to validateZipFilePath on its own.
MaxNameLen == 5

\* Most entries in one uploaded archive.
MaxEntries == 3

\* Longest token (in characters) handed to sanitizeForAirtableFormula on its own.
MaxGames == 3
MaxLogins == 3
MaxRuns == 3
MaxTokenLen == 4

-----------------------------------------------------------------------------
(* Strings.                                                                *)

Sep == "/"

\* strings.HasPrefix(s, prefix)
HasPrefix(s, prefix) ==
    /\ Len(prefix) <= Len(s)
    /\ SubSeq(s, 1, Len(prefix)) = prefix

\* strings.HasSuffix(s, suffix)
HasSuffix(s, suffix) ==
    /\ Len(suffix) <= Len(s)
    /\ SubSeq(s, Len(s) - Len(suffix) + 1, Len(s)) = suffix

\* The elements of a path: the substrings between separators ("a//b" has an
\* empty element, "/a" starts with one).
RECURSIVE SplitFrom(_, _, _)
SplitFrom(s, i, cur) ==
    IF i > Len(s) THEN <<cur>>
    ELSE IF s[i] = Sep THEN <<cur>> \o SplitFrom(s, i + 1, <<>>)
    ELSE SplitFrom(s, i + 1, Append(cur, s[i]))

Split(s) == SplitFrom(s, 1, <<>>)

\* strings.Join(elems, "/")
RECURSIVE JoinSep(_)
JoinSep(elems) ==
    IF elems = <<>> THEN <<>>
    ELSE IF Len(elems) = 1 THEN elems[1]
    ELSE elems[1] \o <<Sep>> \o JoinSep(Tail(elems))

Dot == <<".">>
DotDot == <<".", ".">>

\* The element stack filepath.Clean keeps while it scans a path: empty and "."
\* elements are dropped, ".." removes the element before it, except that a
\* rooted path drops a ".." at the root and a relative path keeps a leading "..".
RECURSIVE CleanElems(_, _, _)
CleanElems(elems, out, rooted) ==
    IF elems = <<>> THEN out
    ELSE LET e == Head(elems)
             rest == Tail(elems)
         IN  IF e = <<>> \/ e = Dot THEN CleanElems(rest, out, rooted)
             ELSE IF e = DotDot THEN
                 IF out # <<>> /\ out[Len(out)] # DotDot
                     THEN CleanElems(rest, SubSeq(out, 1, Len(out) - 1), rooted)
                 ELSE IF rooted THEN CleanElems(rest, out, rooted)
                 ELSE CleanElems(rest, Append(out, e), rooted)
             ELSE CleanElems(rest, Append(out, e), rooted)

\* filepath.Clean(path)
Clean(path) ==
    IF path = <<>> THEN Dot
    ELSE LET rooted == path[1] = Sep
             out == CleanElems(Split(path), <<>>, rooted)
         IN  IF rooted THEN <<Sep>> \o JoinSep(out)
             ELSE IF out = <<>> THEN Dot
             ELSE JoinSep(out)

\* filepath.Join(a, b): empty elements are ignored, the rest is joined with
\* separators and cleaned.
Join(a, b) ==
    IF a # <<>> THEN Clean(a \o <<Sep>> \o b)
    ELSE IF b # <<>> THEN Clean(b)
    ELSE <<>>

\* The working directory of the server process.
Cwd == <<"/">>

\* filepath.Abs(path): an absolute path is cleaned, a relative one is joined
\* onto the working directory.
Abs(path) ==
    IF path # <<>> /\ path[1] = Sep THEN Clean(path) ELSE Join(Cwd, path)

\* filepath.Dir(path): the path without its last element, cleaned.
RECURSIVE LastSepIndex(_, _)
LastSepIndex(s, i) ==
    IF i = 0 THEN 0 ELSE IF s[i] = Sep THEN i ELSE LastSepIndex(s, i - 1)

Dir(path) == Clean(SubSeq(path, 1, LastSepIndex(path, Len(path))))

-----------------------------------------------------------------------------
(* validateZipFilePath and isAllowedFileType.                              *)

\* validateZipFilePath with the separator left out of the prefix test.
validateZipFilePath_NoSep(filePath, destDir) ==
    HasPrefix(Abs(Join(destDir, Clean(filePath))), Abs(destDir))

validateZipFilePath(filePath, destDir) ==
    LET cleanPath == Clean(filePath)
        absDestDir == Abs(destDir)
        absFilePath == Abs(Join(destDir, cleanPath))
    IN  HasPrefix(absFilePath, absDestDir \o <<Sep>>)

ZipSuffix == <<".", "z", "i", "p">>

\* The allow-list letting every name through.
isAllowedFileType_Any(fileName) == TRUE

isAllowedFileType(fileName) == HasSuffix(fileName, ZipSuffix)

-----------------------------------------------------------------------------
(* The limits of the archive bomb detector and of the extractor.           *)

maxZipEntries == 2000
maxTotalUncompressedBytes == 500 * (2^20)
maxPerFileUncompressed == 200 * (2^20)
maxCompressionRatio == 100

\* The message of the error lolCheckForZipBomb returns ("nil": no error).
ErrTooManyFiles == "too many files in archive"
ErrTotalSize == "total uncompressed size exceeds limit"
ErrRatio == "excessive compression ratio detected"
ErrPerFile == "a file exceeds per-file uncompressed size limit"

MacosxPrefix == <<"_", "_", "M", "A", "C", "O", "S", "X", "/">>

\* The sidecar test finding no sidecar.
IsSidecar_Never(f) == FALSE

\* strings.HasPrefix(f.Name, "__MACOSX/")
IsSidecar(f) == HasPrefix(f.Name, MacosxPrefix)

\* uc := f.UncompressedSize64, falling back on the 32-bit field when it is zero.
DeclaredUncompressed(f) ==
    IF f.UncompressedSize64 = 0 /\ f.UncompressedSize > 0
        THEN f.UncompressedSize ELSE f.UncompressedSize64

\* cs := f.CompressedSize64, falling back on the 32-bit field when it is zero.
DeclaredCompressed(f) ==
    IF f.CompressedSize64 = 0 /\ f.CompressedSize > 0
        THEN f.CompressedSize ELSE f.CompressedSize64

\* The aggregate test with the limit never reached.
TotalExceeded_Never(total) == FALSE

\* totalUncompressed > maxTotalUncompressedBytes
TotalExceeded(total) == total > maxTotalUncompressedBytes

\* uc > maxCompressionRatio * cs for cs > 0, computed without the product.
ExactRatioOver(uc, cs) ==
    \/ (uc \div cs) > maxCompressionRatio
    \/ (uc \div cs) = maxCompressionRatio /\ (uc % cs) # 0

\* uc/cs > maxCompressionRatio, a division of unsigned integers
RatioExceeded(uc, cs) == (uc \div cs) > maxCompressionRatio

\* The entry counter never over its limit.
TooManyEntries_Never(entries) == FALSE

\* entries > maxZipEntries
TooManyEntries(entries) == entries > maxZipEntries

\* The declared size of a file never over its limit.
PerFileExceeded_Never(uc) == FALSE

\* uc > maxPerFileUncompressed
PerFileExceeded(uc) == uc > maxPerFileUncompressed

\* The size tests of one entry, in the order of the source: the aggregate
\* size, the compression ratio, the size of the file.
CheckSizes(uc, cs, total) ==
    IF TotalExceeded(total) THEN ErrTotalSize
    ELSE IF cs > 0 /\ uc > 0 /\ RatioExceeded(uc, cs) THEN ErrRatio
    ELSE IF PerFileExceeded(uc) THEN ErrPerFile
    ELSE "nil"

\* The accumulators of lolCheckForZipBomb before its loop.
BombStart == [entries |-> 0, totalUncompressed |-> 0, err |-> "nil"]

\* One pass of the loop of lolCheckForZipBomb for the entry f: the
\* accumulators after it, and the error it returns ("nil": it goes on).
CheckEntry(f, st) ==
    IF IsSidecar(f) THEN st
    ELSE LET n == st.entries + 1
             uc == DeclaredUncompressed(f)
             total == st.totalUncompressed + uc
             cs == DeclaredCompressed(f)
         IN  IF TooManyEntries(n)
                 THEN [entries |-> n, totalUncompressed |-> st.totalUncompressed,
                       err |-> ErrTooManyFiles]
             ELSE [entries |-> n, totalUncompressed |-> total,
                   err |-> CheckSizes(uc, cs, total)]

\* The loop of lolCheckForZipBomb over the entries lo..hi, in order, from the
\* accumulators st: it stops at the first error. (The range is halved so that
\* the evaluation of an archive of thousands of entries nests only a few
\* levels deep; the entries are still visited from the first to the last.)
RECURSIVE BombLoop(_, _, _, _)
BombLoop(files, lo, hi, st) ==
    IF st.err # "nil" \/ lo > hi THEN st
    ELSE IF lo = hi THEN CheckEntry(files[lo], st)
    ELSE LET mid == (lo + hi) \div 2
         IN  BombLoop(files, mid + 1, hi, BombLoop(files, lo, mid, st))

lolCheckForZipBomb(files) == BombLoop(files, 1, Len(files), BombStart).err

-----------------------------------------------------------------------------
(* The token and the identity lookup.                                      *)

IsSpace(c) == c \in {" ", "\t", "\n", "\r"}

RECURSIVE DropSpaces(_)
DropSpaces(s) ==
    IF s = <<>> THEN <<>>
    ELSE IF IsSpace(Head(s)) THEN DropSpaces(Tail(s))
    ELSE <<Head(s)>> \o DropSpaces(Tail(s))

\* strings.ReplaceAll(s, old, new) for a one-character old.
RECURSIVE ReplaceAll(_, _, _)
ReplaceAll(s, old, new) ==
    IF s = <<>> THEN <<>>
    ELSE (IF Head(s) = old THEN new ELSE <<Head(s)>>) \o ReplaceAll(Tail(s), old, new)

\* sanitizeForAirtableFormula: whitespace is dropped, a backslash becomes two
\* backslashes, then a double quote becomes two backslashes and a double quote.
sanitizeForAirtableFormula(input) ==
    ReplaceAll(ReplaceAll(DropSpaces(input), "\\", <<"\\", "\\">>),
               "\"", <<"\\", "\\", "\"">>)

BearerPrefix == <<"B", "e", "a", "r", "e", "r", " ">>

\* strings.TrimPrefix(authHeader, "Bearer ") when the header has that prefix.
TrimBearer(authHeader) ==
    IF HasPrefix(authHeader, BearerPrefix)
        THEN SubSeq(authHeader, Len(BearerPrefix) + 1, Len(authHeader))
        ELSE authHeader

\* fmt.Sprintf("{%s} = \"%s\"", field, token), the field name as one character
FilterByFormula(field, token) ==
    <<"{", field, "}", " ", "=", " ", "\"">> \o token \o <<"\"">>

\* The column names airtableFindUserByToken queries, in order.
fields == <<"token", "Token">>

\* The Users table of the identity provider: the tokens stored in each column.
Users == [token |-> {<<"t">>}, Token |-> {<<"T">>}]

\* The records one query returns: filterByFormula {field} = "token", pageSize 1.
Records(field, token) == IF token \in Users[field] THEN 1 ELSE 0

\* What one HTTP query of the provider can end in.
QueryOutcomes == {"ok", "transport", "status", "decode"}

\* The Authorization headers a request carries (the empty string: no header).
Headers ==
    {<<>>, <<"t", " ">>, BearerPrefix \o <<"T">>, BearerPrefix \o <<"x">>}

-----------------------------------------------------------------------------
(* The file system.                                                        *)

DirNode == [kind |-> "dir", size |-> 0]
FileNode(n) == [kind |-> "file", size |-> n]

Exists(fsys, p) == p \in DOMAIN fsys
IsDirAt(fsys, p) == Exists(fsys, p) /\ fsys[p].kind = "dir"
IsFileAt(fsys, p) == Exists(fsys, p) /\ fsys[p].kind = "file"

\* The cleaned absolute path p and the directories above it, outermost first.
Chain(p) ==
    LET el == CleanElems(Split(p), <<>>, TRUE)
    IN  [k \in 1..Len(el) |-> <<Sep>> \o JoinSep(SubSeq(el, 1, k))]

\* The directories of Chain(p) that do not exist yet, outermost first.
Missing(fsys, p) == SelectSeq(Chain(p), LAMBDA q : ~Exists(fsys, q))

\* fsys with the first k directories of the sequence ds created.
WithDirs(fsys, ds, k) ==
    [q \in DOMAIN fsys \cup {ds[j] : j \in 1..k} |->
        IF q \in DOMAIN fsys THEN fsys[q] ELSE DirNode]

\* os.MkdirAll(p): every missing directory of the chain is created. It fails,
\* creating nothing, when a path of the chain is a regular file; any other
\* failure (permissions, a full disk) may leave some of the directories created.
MkdirAll(fsys, p) ==
    LET ds == Missing(fsys, p) IN
    IF \E k \in 1..Len(Chain(p)) : IsFileAt(fsys, Chain(p)[k])
        THEN {[ok |-> FALSE, fs |-> fsys]}
    ELSE {[ok |-> TRUE, fs |-> WithDirs(fsys, ds, Len(ds))]}
         \cup {[ok |-> FALSE, fs |-> WithDirs(fsys, ds, k)] : k \in 0..(Len(ds) - 1)}

\* os.OpenFile(p, O_WRONLY|O_CREATE|O_TRUNC): an empty regular file at p.
Truncate(fsys, p) ==
    [q \in DOMAIN fsys \cup {p} |-> IF q = p THEN FileNode(0) ELSE fsys[q]]

\* outFile.Write(buf[:n])
WriteBytes(fsys, p, n) ==
    [fsys EXCEPT ![p] = FileNode(@.size + n)]

\* os.Remove with nothing removed.
Remove_Kept(fsys, p) == fsys

\* os.Remove(p)
Remove(fsys, p) == [q \in DOMAIN fsys \ {p} |-> fsys[q]]

TmpDir == <<"/", "t", "m", "p">>

Digits == <<"1", "2", "3", "4", "5", "6", "7", "8", "9">>

\* The name os.CreateTemp("", "game-upload-*.zip") gives its k-th file.
TmpName(k) == TmpDir \o <<Sep, "u", Digits[k]>> \o ZipSuffix

GamesPrefix == <<"/", "g", "a", "m", "e", "s", "/">>

\* id.String()
IdString(id) == <<Digits[id]>>

\* destDir := filepath.Join("/games/" + id.String() + "/")
DestDirOf(id) == Clean(GamesPrefix \o IdString(id) \o <<Sep>>)

PlayPrefix == <<"/", "p", "l", "a", "y", "/">>

\* The file system before any request: the root and the temporary directory.
InitFs == [q \in {<<Sep>>, TmpDir} |-> DirNode]

-----------------------------------------------------------------------------
(* Archives: the entries zip.OpenReader finds in the uploaded file.        *)

\* One entry: its header fields and the chunk lengths its decompression stream
\* yields, in order. The source reads through a 64 KiB buffer; the model's
\* stream may yield a longer run in one Read, so that the byte budgets are
\* reached within a few reads.
File(name, dir, uc, cs, content) ==
    [Name |-> name, ModeDir |-> dir,
     UncompressedSize64 |-> uc, UncompressedSize |-> uc,
     CompressedSize64 |-> cs, CompressedSize |-> cs,
     content |-> content]

\* f.FileInfo().IsDir(): the directory bit of the external attributes, or a
\* name ending in a slash.
IsDirEntry(f) == f.ModeDir \/ (f.Name # <<>> /\ f.Name[Len(f.Name)] = Sep)

N_a == <<"a">> \o ZipSuffix
N_b == <<"b">> \o ZipSuffix
N_d == <<"d">> \o ZipSuffix
N_d_a == N_d \o <<Sep>> \o N_a
N_up == <<".", ".", Sep, "e">> \o ZipSuffix
N_rootup == <<Sep, ".", ".", Sep, "e">> \o ZipSuffix
N_txt == <<"a", ".", "t", "x", "t">>
N_mac == MacosxPrefix \o N_a
N_dirslash == <<"d", Sep>>
N_mac_up == MacosxPrefix \o <<".", ".", Sep, ".", ".", Sep, "e">> \o ZipSuffix

\* Entries that differ in their names and kinds, with honest small sizes; the
\* plain sidecar entry declares a size over every limit of the detector.
PathEntries ==
    { File(N_a, FALSE, 1, 1, <<1>>),
      File(N_d, TRUE, 0, 0, <<>>),
      File(N_d, FALSE, 1, 1, <<1>>),
      File(N_d_a, FALSE, 1, 1, <<1>>),
      File(N_up, FALSE, 1, 1, <<1>>),
      File(N_rootup, FALSE, 1, 1, <<1>>),
      File(N_txt, FALSE, 1, 1, <<1>>),
      File(N_mac, FALSE, maxTotalUncompressedBytes + 1, 1, <<1>>),
      File(N_mac_up, FALSE, 1, 1, <<1>>),
      File(N_dirslash, FALSE, 0, 0, <<>>) }

\* Entries that differ in their declared and their real sizes: declared sizes
\* of zero with a real byte, a whole per-file budget, or one byte more; honest
\* and overstated sizes; and one entry over each limit of the detector.
BudgetEntries ==
    { File(N_a, FALSE, 0, 0, <<1>>),
      File(N_a, FALSE, 0, 0, <<maxPerFileUncompressed>>),
      File(N_a, FALSE, 0, 0, <<maxPerFileUncompressed, 1>>),
      File(N_b, FALSE, 0, 0, <<1>>),
      File(N_b, FALSE, 0, 0, <<maxPerFileUncompressed>>),
      File(N_d, FALSE, 0, 0, <<maxPerFileUncompressed>>),
      File(N_a, FALSE, maxPerFileUncompressed, 0, <<maxPerFileUncompressed>>),
      File(N_b, FALSE, maxPerFileUncompressed, 0, <<1>>),
      File(N_a, FALSE, maxTotalUncompressedBytes + 1, 0, <<1>>),
      File(N_a, FALSE, maxPerFileUncompressed + 1, 0, <<1>>),
      File(N_a, FALSE, maxCompressionRatio + 1, 1, <<1>>) }

SeqsUpTo(S, n) == UNION {[1..k -> S] : k \in 0..n}

Archives == SeqsUpTo(PathEntries, MaxEntries) \cup SeqsUpTo(BudgetEntries, MaxEntries)

\* What the uploaded bytes are: an archive, or no archive at all.
Uploads ==
    {[zip |-> FALSE, files |-> <<>>]} \cup {[zip |-> TRUE, files |-> a] : a \in Archives}

N_cross == <<Sep, ".", ".", Sep, "2", Sep>> \o N_a

\* The uploads of two clients at a time: no archive, a one-file archive with
\* a two-chunk stream, and an archive whose entry names the directory of the
\* second submission.
PairedUploads ==
    { [zip |-> FALSE, files |-> <<>>],
      [zip |-> TRUE, files |-> <<File(N_a, FALSE, 2, 1, <<1, 1>>)>>],
      [zip |-> TRUE, files |-> <<File(N_cross, FALSE, 1, 1, <<1>>)>>] }

\* The files of a family of uploads.
Family(name) ==
    IF name = "any" THEN Uploads
    ELSE IF name = "paired" THEN PairedUploads
    ELSE {}

-----------------------------------------------------------------------------
(* GameUploadHandler: the local state of one invocation.                   *)

Reqs == {1, 2}

\* The JSON body {ok, gameId, playUrl} of a response that carries none.
NoBody == [Ok |-> FALSE, GameID |-> <<>>, PlayURL |-> <<>>]

\* A handler that has not been invoked. The fields lookup, upload, io, opened
\* and chunks record what the invocation did (the outcome of the identity
\* lookup, whether the uploaded file was an archive, the paths each entry
\* created or wrote, the entries opened for decompression, the chunk lengths
\* written to output files); the handler never reads them.
Off ==
    [pc |-> "off", method |-> "", formOk |-> FALSE, authHeader |-> <<>>,
     token |-> <<>>, field |-> 0, queries |-> 0, lookup |-> "none",
     tmp |-> <<>>, files |-> <<>>, id |-> 0, destDir |-> <<>>, bomb |-> "none",
     idx |-> 0, totalWritten |-> 0, writtenForFile |-> 0, fpath |-> <<>>,
     rpos |-> 0, status |-> 0, validationError |-> FALSE, msg |-> "",
     details |-> "", io |-> {}, opened |-> {}, chunks |-> <<>>,
     resp |-> NoBody, upload |-> "none", readErr |-> "nil"]

\* http.Error(w, msg, status) followed by return.
HttpError(s, status, msg) ==
    [s EXCEPT !.status = status, !.validationError = FALSE, !.msg = msg,
              !.pc = "return"]

\* jsonValidationError(w, status, msg, details) followed by return.
jsonValidationError(s, status, msg, details) ==
    [s EXCEPT !.status = status, !.validationError = TRUE, !.msg = msg,
              !.details = details, !.pc = "return"]

MsgInvalidPath == "Invalid file path in zip"
MsgFileType == "File type not allowed"
MsgFileTooLarge == "File too large after decompression"
MsgTotalTooLarge == "Archive total uncompressed size limit exceeded"
MsgZipValidation == "Zip validation failed"
MsgInvalidToken == "Invalid or expired token"
MsgLookupFailed == "Failed to validate token.."

MsgMethod == "Method not allowed"

\* The method test letting every method through.
CheckMethodStep_AnyMethod(s, m) == [s EXCEPT !.method = m, !.pc = "parse"]

\* if r.Method != http.MethodPost
CheckMethodStep(s, m) ==
    IF m # "POST" THEN HttpError([s EXCEPT !.method = m], 405, MsgMethod)
    ELSE [s EXCEPT !.method = m, !.pc = "parse"]

\* r.ParseMultipartForm(100 << 20)
ParseFormStep(s, ok) ==
    IF ~ok THEN HttpError(s, 400, "Failed to parse form")
    ELSE [s EXCEPT !.formOk = TRUE, !.pc = "auth"]

\* The header test with a missing header let through.
MissingHeader_Never(authHeader) == FALSE

\* authHeader == ""
MissingHeader(authHeader) == authHeader = <<>>

\* The Authorization header is read, trimmed and sanitized.
AuthStep(s, hd) ==
    IF MissingHeader(hd)
        THEN HttpError([s EXCEPT !.authHeader = hd], 401, "Authorization header is missing")
    ELSE [s EXCEPT !.authHeader = hd,
                   !.token = sanitizeForAirtableFormula(TrimBearer(hd)),
                   !.field = 1, !.pc = "lookup"]

\* The record test with an empty result taken for a match.
NoRecords_Never(n) == FALSE

\* len(airOut.Records) == 0
NoRecords(n) == n = 0

\* What the handler does with the records airtableFindUserByToken returned.
AfterLookup(s, n) ==
    IF NoRecords(n)
        THEN HttpError([s EXCEPT !.lookup = "empty"], 401, MsgInvalidToken)
    ELSE [s EXCEPT !.lookup = "found", !.pc = "formfile"]

\* The failed lookup reported as an invalid credential.
LookupFailed_Unauthorized(s) ==
    HttpError([s EXCEPT !.lookup = "error"], 401, MsgInvalidToken)

\* if err != nil after airtableFindUserByToken: the error is logged and the
\* request answered 500.
LookupFailed(s) ==
    HttpError([s EXCEPT !.lookup = "error"], 500, MsgLookupFailed)

\* The lookup repeating a failed query instead of returning its error.
LookupStep_Retry(s, configured, out) ==
    IF ~configured
        THEN LookupFailed(s)
    ELSE LET q == [s EXCEPT !.queries = @ + 1]
             n == Records(fields[s.field], s.token)
         IN  IF out # "ok"
                 THEN IF s.queries < Len(fields) THEN q ELSE LookupFailed(q)
             ELSE IF n > 0 THEN AfterLookup(q, n)
             ELSE IF s.field < Len(fields) THEN [q EXCEPT !.field = @ + 1]
             ELSE AfterLookup(q, 0)

\* airtableFindUserByToken, one query of its loop at a time: without the
\* credentials, or when a query fails, it returns an error and the handler
\* answers 500; it returns the first non-empty result, or an empty one after
\* the last column.
LookupStep(s, configured, out) ==
    IF ~configured
        THEN LookupFailed(s)
    ELSE LET q == [s EXCEPT !.queries = @ + 1]
             n == Records(fields[s.field], s.token)
         IN  IF out # "ok"
                 THEN LookupFailed(q)
             ELSE IF n > 0 THEN AfterLookup(q, n)
             ELSE IF s.field < Len(fields) THEN [q EXCEPT !.field = @ + 1]
             ELSE AfterLookup(q, 0)

\* r.FormFile("file")
FormFileStep(s, ok) ==
    IF ~ok THEN HttpError(s, 400, "Missing file field 'file'")
    ELSE [s EXCEPT !.pc = "mktemp"]

\* os.CreateTemp("", "game-upload-*.zip") and defer os.Remove(tmpFile.Name())
CreateTempStep(s, fsys, k, ok) ==
    IF ~ok THEN [s |-> HttpError(s, 500, "Failed to create temporary file"), fs |-> fsys]
    ELSE [s |-> [s EXCEPT !.tmp = TmpName(k), !.pc = "copytmp"],
          fs |-> Truncate(fsys, TmpName(k))]

\* io.Copy(tmpFile, file) and tmpFile.Close()
CopyUploadStep(s, out) ==
    IF out = "copy" THEN HttpError(s, 500, "Failed to write uploaded file")
    ELSE IF out = "close" THEN HttpError(s, 500, "Failed to close temp file")
    ELSE [s EXCEPT !.pc = "openzip"]

MsgReadFailed == "Failed to read file in zip"
MsgWriteFailed == "Failed to write file"
MsgNotZip == "Uploaded file is not a valid zip"

\* The unreadable archive reported as a server error.
OpenReaderStep_ServerError(s, up) ==
    IF ~up.zip THEN HttpError([s EXCEPT !.upload = "notzip"], 500, MsgNotZip)
    ELSE [s EXCEPT !.upload = "zip", !.files = up.files, !.pc = "mintid"]

\* zip.OpenReader(tmpFile.Name()) on the uploaded bytes up
OpenReaderStep(s, up) ==
    IF ~up.zip THEN HttpError([s EXCEPT !.upload = "notzip"], 400, MsgNotZip)
    ELSE [s EXCEPT !.upload = "zip", !.files = up.files, !.pc = "mintid"]

\* id, err := uuid.NewV7(): on an error log.Fatal ends the process, and no
\* deferred call runs.
MintIdStep(s, id, ok) ==
    IF ~ok THEN [s EXCEPT !.pc = "crashed"]
    ELSE [s EXCEPT !.id = id, !.destDir = DestDirOf(id), !.pc = "mkdest"]

\* os.MkdirAll(destDir, 0755)
MkDestStep(s, res) ==
    IF ~res.ok THEN HttpError(s, 500, "Failed to create game directory")
    ELSE [s EXCEPT !.pc = "bomb"]

\* lolCheckForZipBomb(zr), then var totalWritten uint64
BombStep(s) ==
    LET err == lolCheckForZipBomb(s.files) IN
    IF err # "nil"
        THEN jsonValidationError([s EXCEPT !.bomb = err], 400, MsgZipValidation, err)
    ELSE [s EXCEPT !.bomb = "nil", !.totalWritten = 0, !.idx = 1, !.pc = "extract"]

-----------------------------------------------------------------------------
(* GameUploadHandler: the extraction loop.                                 *)

\* The traversal rejection with the entry skipped instead.
RejectInvalidPath_Skip(s) == [s EXCEPT !.idx = @ + 1]

\* The traversal rejection sent as a structured validation error.
RejectInvalidPath_Json(s) == jsonValidationError(s, 400, MsgInvalidPath, "")

\* http.Error(w, "Invalid file path in zip: "+f.Name, 400); return
RejectInvalidPath(s) == HttpError(s, 400, MsgInvalidPath)

\* fpath := filepath.Join(destDir, f.Name)
TargetPath(destDir, name) == Join(destDir, name)

\* The paths of fsys2 that fsys does not have, as the work of entry i.
Made(i, fsys, fsys2) == {<<i, q>> : q \in DOMAIN fsys2 \ DOMAIN fsys}

\* One pass of the loop over zr.File up to the copy loop, as the set of its
\* possible results: the entry is skipped, rejected, created as a directory
\* (the error of os.MkdirAll ignored), or its parent directories are made, its
\* stream is opened (f.Open) and its output file created (os.OpenFile, which
\* fails on a directory); each of the three calls may fail.
EntryStep(s, fsys) ==
    LET f == s.files[s.idx]
        fpath == TargetPath(s.destDir, f.Name)
    IN
    IF IsSidecar(f) THEN {[s |-> [s EXCEPT !.idx = @ + 1], fs |-> fsys]}
    ELSE IF ~validateZipFilePath(f.Name, s.destDir)
        THEN {[s |-> RejectInvalidPath(s), fs |-> fsys]}
    ELSE IF ~isAllowedFileType(f.Name)
        THEN {[s |-> HttpError(s, 400, MsgFileType), fs |-> fsys]}
    ELSE IF IsDirEntry(f)
        THEN { [s |-> [s EXCEPT !.idx = @ + 1, !.io = @ \cup Made(s.idx, fsys, m.fs)],
                fs |-> m.fs] : m \in MkdirAll(fsys, fpath) }
    ELSE UNION {
        LET t == [s EXCEPT !.io = @ \cup Made(s.idx, fsys, m.fs)]
            u == [t EXCEPT !.opened = @ \cup {s.idx}]
        IN
        IF ~m.ok
            THEN {[s |-> HttpError(t, 500, "Failed to create directory"), fs |-> m.fs]}
        ELSE {[s |-> HttpError(t, 500, "Failed to open file in zip"), fs |-> m.fs],
              [s |-> HttpError(u, 500, "Failed to create file"), fs |-> m.fs]}
             \cup
             (IF IsDirAt(m.fs, fpath) THEN {}
              ELSE {[s |-> [u EXCEPT !.io = @ \cup {<<s.idx, fpath>>},
                                     !.fpath = fpath, !.writtenForFile = 0,
                                     !.rpos = 0, !.pc = "copy"],
                     fs |-> Truncate(m.fs, fpath)]})
        : m \in MkdirAll(fsys, Dir(fpath)) }

\* What rc.Read(buf) can return at position k of the entry's stream: the next
\* chunk, the last chunk together with io.EOF, io.EOF alone at the end, or an
\* error with or without bytes.
ReadResults(f, k) ==
    {[n |-> 0, err |-> "error"]}
    \cup (IF k < Len(f.content)
            THEN {[n |-> f.content[k + 1], err |-> "nil"],
                  [n |-> f.content[k + 1], err |-> "error"]}
            ELSE {[n |-> 0, err |-> "EOF"]})
    \cup (IF k + 1 = Len(f.content)
            THEN {[n |-> f.content[k + 1], err |-> "EOF"]} ELSE {})

\* The aggregate counter taking the chunk for the whole count.
AddChunk_Reset(counter, n) == n

\* counter += uint64(n)
AddChunk(counter, n) == counter + n

\* The per-file test with the limit never reached.
PerFileBreach_Never(written) == FALSE

\* writtenForFile > maxPerFileUncompressed
PerFileBreach(written) == written > maxPerFileUncompressed

\* The aggregate test with the limit never reached.
TotalBreach_Never(written) == FALSE

\* totalWritten > maxTotalUncompressedBytes
TotalBreach(written) == written > maxTotalUncompressedBytes

\* The read error other than io.EOF ignored: the copy loop goes on.
AfterRead_IgnoreError(s, err) ==
    IF err = "EOF" THEN [s EXCEPT !.idx = @ + 1, !.pc = "extract"] ELSE s

\* The end of one pass of the copy loop: io.EOF ends the entry (outFile.Close,
\* rc.Close, next entry), another error ends the request.
AfterRead(s, err) ==
    IF err = "EOF" THEN [s EXCEPT !.idx = @ + 1, !.pc = "extract"]
    ELSE IF err # "nil" THEN HttpError(s, 500, MsgReadFailed)
    ELSE s

\* One pass of the copy loop for the read result rd; writeOk is whether
\* outFile.Write succeeds.
CopyStep(s, fsys, rd, writeOk) ==
    LET f == s.files[s.idx]
        wf == AddChunk(s.writtenForFile, rd.n)
        tw == AddChunk(s.totalWritten, rd.n)
        t == [s EXCEPT !.writtenForFile = wf, !.totalWritten = tw,
                       !.rpos = IF rd.n > 0 THEN @ + 1 ELSE @,
                       !.readErr = rd.err]
    IN
    IF rd.n > 0 THEN
        IF PerFileBreach(wf)
            THEN [s |-> jsonValidationError(t, 400, MsgFileTooLarge, f.Name),
                  fs |-> Remove(fsys, s.fpath)]
        ELSE IF TotalBreach(tw)
            THEN [s |-> jsonValidationError(t, 400, MsgTotalTooLarge, ""),
                  fs |-> Remove(fsys, s.fpath)]
        ELSE IF ~writeOk
            THEN [s |-> HttpError(t, 500, MsgWriteFailed), fs |-> fsys]
        ELSE [s |-> AfterRead([t EXCEPT !.chunks = Append(@, rd.n)], rd.err),
              fs |-> WriteBytes(fsys, s.fpath, rd.n)]
    ELSE [s |-> AfterRead([s EXCEPT !.readErr = rd.err], rd.err), fs |-> fsys]

\* The loop over zr.File ending after its first entry.
LoopDone_Early(s) == s.idx > Len(s.files) \/ s.idx > 1

\* for _, f := range zr.File: the loop has gone through every entry.
LoopDone(s) == s.idx > Len(s.files)

\* go func(folder, srv) { sync.UploadFolder(folder, *srv) }(destDir, srv)
DispatchStep(s) == [s EXCEPT !.pc = "respond"]

\* w.WriteHeader(http.StatusOK) and the JSON body {ok, gameId, playUrl}; a
\* failed write of the body is logged, the status is already sent.
RespondStep(s) ==
    [s EXCEPT !.status = 200, !.msg = "ok", !.pc = "return",
              !.resp = [Ok |-> TRUE, GameID |-> IdString(s.id),
                        PlayURL |-> PlayPrefix \o IdString(s.id) \o <<Sep>>]]

\* The replication whose failure is sent to the client as a server error.
UploadFolderStep_Reported(s, res) ==
    [s |-> IF res = "failed" THEN [s EXCEPT !.status = 500, !.resp = NoBody] ELSE s,
     repl |-> res]

\* The body of the goroutine: sync.UploadFolder(folder, *srv) ends in res; an
\* error is logged. The goroutine got folder and srv as arguments and touches
\* nothing of the invocation s that started it.
UploadFolderStep(s, res) == [s |-> s, repl |-> res]

\* The deferred calls, last first: zr.Close(), os.Remove(tmpFile.Name()),
\* file.Close().
ReturnStep(s, fsys) ==
    [s |-> [s EXCEPT !.pc = "done"],
     fs |-> IF s.tmp # <<>> THEN Remove(fsys, s.tmp) ELSE fsys]

-----------------------------------------------------------------------------
(* The actions of one request r.                                           *)

At(r, label) == h[r].pc = label

Set(r, s) == h' = [h EXCEPT ![r] = s]

CheckMethod(r) ==
    /\ At(r, "start")
    /\ \E m \in {"POST", "GET"} : Set(r, CheckMethodStep(h[r], m))
    /\ UNCHANGED <<fs, srv, nextId, nextTmp, repl, probe, payloads, sync>>

ParseForm(r) ==
    /\ At(r, "parse")
    /\ \E ok \in BOOLEAN : Set(r, ParseFormStep(h[r], ok))
    /\ UNCHANGED <<fs, srv, nextId, nextTmp, repl, probe, payloads, sync>>

Authenticate(r) ==
    /\ At(r, "auth")
    /\ \E hd \in Headers : Set(r, AuthStep(h[r], hd))
    /\ UNCHANGED <<fs, srv, nextId, nextTmp, repl, probe, payloads, sync>>

Lookup(r) ==
    /\ At(r, "lookup")
    /\ \E out \in QueryOutcomes : Set(r, LookupStep(h[r], srv, out))
    /\ UNCHANGED <<fs, srv, nextId, nextTmp, repl, probe, payloads, sync>>

FormFile(r) ==
    /\ At(r, "formfile")
    /\ \E ok \in BOOLEAN : Set(r, FormFileStep(h[r], ok))
    /\ UNCHANGED <<fs, srv, nextId, nextTmp, repl, probe, payloads, sync>>

CreateTemp(r) ==
    /\ At(r, "mktemp")
    /\ \E ok \in BOOLEAN :
        LET res == CreateTempStep(h[r], fs, nextTmp, ok) IN
        /\ Set(r, res.s)
        /\ fs' = res.fs
        /\ nextTmp' = IF ok THEN nextTmp + 1 ELSE nextTmp
    /\ UNCHANGED <<srv, nextId, repl, probe, payloads, sync>>

CopyUpload(r) ==
    /\ At(r, "copytmp")
    /\ \E out \in {"ok", "copy", "close"} : Set(r, CopyUploadStep(h[r], out))
    /\ UNCHANGED <<fs, srv, nextId, nextTmp, repl, probe, payloads, sync>>

OpenReader(r) ==
    /\ At(r, "openzip")
    /\ \E up \in Family(payloads) : Set(r, OpenReaderStep(h[r], up))
    /\ UNCHANGED <<fs, srv, nextId, nextTmp, repl, probe, payloads, sync>>

\* log.Fatal ends the whole process: every handler still running stops where
\* it is, and so does every replication goroutine.
MintId(r) ==
    /\ At(r, "mintid")
    /\ \E ok \in BOOLEAN :
        IF ok
            THEN /\ Set(r, MintIdStep(h[r], nextId, TRUE))
                 /\ nextId' = nextId + 1
                 /\ repl' = repl
            ELSE /\ h' = [q \in Reqs |->
                            IF q = r THEN MintIdStep(h[q], nextId, FALSE)
                            ELSE IF h[q].pc \in {"off", "done"} THEN h[q]
                            ELSE [h[q] EXCEPT !.pc = "crashed"]]
                 /\ nextId' = nextId
                 /\ repl' = [q \in Reqs |->
                               IF repl[q] = "running" THEN "killed" ELSE repl[q]]
    /\ UNCHANGED <<fs, srv, nextTmp, probe, payloads, sync>>

MkDest(r) ==
    /\ At(r, "mkdest")
    /\ \E res \in MkdirAll(fs, h[r].destDir) :
        /\ Set(r, MkDestStep(h[r], res))
        /\ fs' = res.fs
    /\ UNCHANGED <<srv, nextId, nextTmp, repl, probe, payloads, sync>>

BombCheck(r) ==
    /\ At(r, "bomb")
    /\ Set(r, BombStep(h[r]))
    /\ UNCHANGED <<fs, srv, nextId, nextTmp, repl, probe, payloads, sync>>

ExtractEntry(r) ==
    /\ At(r, "extract")
    /\ ~LoopDone(h[r])
    /\ \E res \in EntryStep(h[r], fs) :
        /\ Set(r, res.s)
        /\ fs' = res.fs
    /\ UNCHANGED <<srv, nextId, nextTmp, repl, probe, payloads, sync>>

CopyChunk(r) ==
    /\ At(r, "copy")
    /\ \E rd \in ReadResults(h[r].files[h[r].idx], h[r].rpos), writeOk \in BOOLEAN :
        LET res == CopyStep(h[r], fs, rd, writeOk) IN
        /\ Set(r, res.s)
        /\ fs' = res.fs
    /\ UNCHANGED <<srv, nextId, nextTmp, repl, probe, payloads, sync>>

Dispatch(r) ==
    /\ At(r, "extract")
    /\ LoopDone(h[r])
    /\ Set(r, DispatchStep(h[r]))
    /\ repl' = [repl EXCEPT ![r] = "running"]
    /\ UNCHANGED <<fs, srv, nextId, nextTmp, probe, payloads, sync>>

Respond(r) ==
    /\ At(r, "respond")
    /\ Set(r, RespondStep(h[r]))
    /\ UNCHANGED <<fs, srv, nextId, nextTmp, repl, probe, payloads, sync>>

Return(r) ==
    /\ At(r, "return")
    /\ LET res == ReturnStep(h[r], fs) IN
        /\ Set(r, res.s)
        /\ fs' = res.fs
    /\ UNCHANGED <<srv, nextId, nextTmp, repl, probe, payloads, sync>>

\* sync.UploadFolder(folder, *srv) in its goroutine: it succeeds, or it fails
\* and the failure is logged.
UploadFolder(r) ==
    /\ repl[r] = "running"
    /\ \E res \in {"ok", "failed"} :
        LET out == UploadFolderStep(h[r], res) IN
        /\ Set(r, out.s)
        /\ repl' = [repl EXCEPT ![r] = out.repl]
    /\ UNCHANGED <<fs, srv, nextId, nextTmp, probe, payloads, sync>>

Handler(r) ==
    \/ CheckMethod(r) \/ ParseForm(r) \/ Authenticate(r) \/ Lookup(r)
    \/ FormFile(r) \/ CreateTemp(r) \/ CopyUpload(r) \/ OpenReader(r)
    \/ MintId(r) \/ MkDest(r) \/ BombCheck(r) \/ ExtractEntry(r)
    \/ CopyChunk(r) \/ Dispatch(r) \/ Respond(r) \/ Return(r)
    \/ UploadFolder(r)

-----------------------------------------------------------------------------
(* The synchronization server: its global state and its steps.             *)

\* The manual triggers (POST /api/sync) the model lets arrive.
Triggers == {1, 2}

\* A trigger that has not arrived.
NoTrigger == [pc |-> "idle", status |-> 0]

\* let isSyncRunning = false; lastSyncTime = null; lastSyncResult = null;
\* syncError = null; syncCount = 0: a null is the empty sequence. loop is the
\* position of the continuous loop, clock the seconds its timers have waited,
\* apiKey whether AIRTABLE_API_KEY is set, post[m] the handler of trigger m.
SyncOff ==
    [isSyncRunning |-> FALSE, lastSyncTime |-> <<>>, lastSyncResult |-> <<>>,
     syncError |-> <<>>, syncCount |-> 0, loop |-> "off", clock |-> 0,
     apiKey |-> FALSE, post |-> [m \in Triggers |-> NoTrigger]]

\* setTimeout(..., 10000) at the end of the script: the first run is pending.
SyncBoot(key) == [SyncOff EXCEPT !.loop = "boot", !.apiKey = key]

\* How a call of performFullSync can end: it throws without the API key, and
\* its requests may fail with it.
PerformOutcomes(s) == IF s.apiKey THEN {"ok", "throw"} ELSE {"throw"}

\* runContinuousSync up to its await: it returns at once when the flag is
\* set (no timer is then armed), else it sets the flag and counts the run.
runContinuousSync(s) ==
    IF s.isSyncRunning THEN [s EXCEPT !.loop = "stopped"]
    ELSE [s EXCEPT !.isSyncRunning = TRUE, !.syncCount = @ + 1, !.loop = "running"]

\* The first timer: setTimeout(() => { runContinuousSync(); }, 10000)
BootStep(s) == runContinuousSync([s EXCEPT !.clock = @ + 10])

\* The timer callback that calls runContinuousSync with the flag still set.
TimerStep_KeepFlag(s) ==
    runContinuousSync([s EXCEPT !.clock = @ + (IF s.loop = "delay1" THEN 1 ELSE 5)])

\* setTimeout(() => { isSyncRunning = false; runContinuousSync(); }, d) with
\* d = 1000 after a completed run and 5000 after a failed one.
TimerStep(s) ==
    runContinuousSync([s EXCEPT !.isSyncRunning = FALSE,
                                !.clock = @ + (IF s.loop = "delay1" THEN 1 ELSE 5)])

\* runContinuousSync after its await: the result of the run, numbered by the
\* run, and the time are stored and the error cleared, or the error is
\* stored; a timer is armed in both cases.
SettleStep(s, out) ==
    IF out = "ok"
        THEN [s EXCEPT !.lastSyncResult = <<s.syncCount>>, !.lastSyncTime = <<s.clock>>,
                       !.syncError = <<>>, !.loop = "delay1"]
    ELSE [s EXCEPT !.syncError = <<"error">>, !.loop = "delay5"]

\* app.post('/api/sync') up to its await: 409 when the flag is set, else
\* performFullSync is called; the flag is left as it is.
PostSyncStep(s, m) ==
    IF s.isSyncRunning
        THEN [s EXCEPT !.post[m] = [pc |-> "done", status |-> 409]]
    ELSE [s EXCEPT !.post[m] = [pc |-> "running", status |-> 0]]

\* app.post('/api/sync') after its await: res.json(result), or status 500.
PostSettleStep(s, m, out) ==
    [s EXCEPT !.post[m] = [pc |-> "done", status |-> IF out = "ok" THEN 200 ELSE 500]]

NoProbe == [fn |-> "none", arg |-> <<>>, ret |-> FALSE, path |-> <<>>, done |-> TRUE]

\* One request arrives at a server that has served none.
Init ==
    /\ h = [r \in Reqs |-> IF r = 1 THEN [Off EXCEPT !.pc = "start"] ELSE Off]
    /\ fs = InitFs
    /\ srv \in BOOLEAN
    /\ nextId = 1
    /\ nextTmp = 1
    /\ repl = [r \in Reqs |-> "none"]
    /\ probe = NoProbe
    /\ payloads = "any"
    /\ sync = SyncOff

Next == \E r \in Reqs : Handler(r)

Spec == Init /\ [][Next]_vars

-----------------------------------------------------------------------------
(* Two uploads handled at the same time.                                   *)

\* Two requests arrive at a configured server that has served none.
InitTwo ==
    /\ h = [r \in Reqs |-> [Off EXCEPT !.pc = "start"]]
    /\ fs = InitFs
    /\ srv = TRUE
    /\ nextId = 1
    /\ nextTmp = 1
    /\ repl = [r \in Reqs |-> "none"]
    /\ probe = NoProbe
    /\ payloads = "paired"
    /\ sync = SyncOff

SpecTwo == InitTwo /\ [][Next]_vars

-----------------------------------------------------------------------------
(* validateZipFilePath on its own.                                         *)

PathAlphabet == {Sep, ".", "a", "1"}

Names == SeqsUpTo(PathAlphabet, MaxNameLen)

\* The destination directory of the first submission.
ProbeDest == DestDirOf(1)

InitPath ==
    /\ h = [r \in Reqs |-> Off]
    /\ fs = InitFs
    /\ srv = TRUE
    /\ nextId = 1
    /\ nextTmp = 1
    /\ repl = [r \in Reqs |-> "none"]
    /\ probe \in {[fn |-> "validateZipFilePath", arg |-> n, ret |-> FALSE,
                   path |-> <<>>, done |-> FALSE] : n \in Names}
    /\ payloads = "none"
    /\ sync = SyncOff

\* The check of an entry name and the path the extractor writes for it.
ValidatePath ==
    /\ probe.fn = "validateZipFilePath"
    /\ ~probe.done
    /\ probe' = [probe EXCEPT !.ret = validateZipFilePath(probe.arg, ProbeDest),
                              !.path = TargetPath(ProbeDest, probe.arg),
                              !.done = TRUE]
    /\ UNCHANGED <<h, fs, srv, nextId, nextTmp, repl, payloads, sync>>

NextPath == ValidatePath

SpecPath == InitPath /\ [][NextPath]_vars

-----------------------------------------------------------------------------
(* lolCheckForZipBomb on its own.                                          *)

\* An honest one-byte file entry.
Filler == File(N_a, FALSE, 1, 1, <<1>>)

\* A sidecar entry of macOS archives, with sizes over every limit.
Sidecar == File(N_mac, FALSE, maxTotalUncompressedBytes + 1, 1, <<1>>)

\* The declared sizes <<uncompressed, compressed>> of the entry under test:
\* around the ratio limit, around the per-file limit, over the aggregate
\* limit, and with one of the two sizes zero.
DeclaredSizes ==
    { <<0, 0>>, <<1, 1>>, <<100, 1>>, <<101, 1>>, <<200, 2>>, <<201, 2>>,
      <<202, 2>>, <<101, 0>>, <<0, 1>>,
      <<maxPerFileUncompressed, 0>>, <<maxPerFileUncompressed + 1, 0>>,
      <<maxPerFileUncompressed + 1, 2^20>>,
      <<maxPerFileUncompressed + 1, 100 * (2^20)>>,
      <<maxTotalUncompressedBytes + 1, 0>> }

\* The numbers of filler entries around the entry-count limit (the entry
\* under test is counted in addition to them).
FillerCounts ==
    {0, 1, maxZipEntries - 2, maxZipEntries - 1, maxZipEntries, maxZipEntries + 1}

\* The archive of a description d: d.mac sidecar entries, then the entry
\* under test before (d.first) or after d.n filler entries.
Build(d) ==
    LET e == File(N_b, FALSE, d.sizes[1], d.sizes[2], <<>>)
        fill == [i \in 1..d.n |-> Filler]
        mac == [i \in 1..d.mac |-> Sidecar]
    IN  mac \o (IF d.first THEN <<e>> \o fill ELSE fill \o <<e>>)

Descriptions ==
    [n : FillerCounts, mac : {0, 2}, sizes : DeclaredSizes, first : BOOLEAN]

InitBomb ==
    /\ h = [r \in Reqs |-> Off]
    /\ fs = InitFs
    /\ srv = TRUE
    /\ nextId = 1
    /\ nextTmp = 1
    /\ repl = [r \in Reqs |-> "none"]
    /\ probe \in {[fn |-> "lolCheckForZipBomb", arg |-> d, ret |-> "",
                   path |-> <<>>, done |-> FALSE] : d \in Descriptions}
    /\ payloads = "none"
    /\ sync = SyncOff

\* One call of the detector on the archive of the description.
CheckBomb ==
    /\ probe.fn = "lolCheckForZipBomb"
    /\ ~probe.done
    /\ probe' = [probe EXCEPT !.ret = lolCheckForZipBomb(Build(probe.arg)),
                              !.done = TRUE]
    /\ UNCHANGED <<h, fs, srv, nextId, nextTmp, repl, payloads, sync>>

NextBomb == CheckBomb

SpecBomb == InitBomb /\ [][NextBomb]_vars

-----------------------------------------------------------------------------
(* sanitizeForAirtableFormula on its own.                                  *)

\* A letter, two kinds of whitespace, the backslash and the double quote.
TokenAlphabet == {"a", " ", "\t", "\\", "\""}

Tokens == SeqsUpTo(TokenAlphabet, MaxTokenLen)

InitToken ==
    /\ h = [r \in Reqs |-> Off]
    /\ fs = InitFs
    /\ srv = TRUE
    /\ nextId = 1
    /\ nextTmp = 1
    /\ repl = [r \in Reqs |-> "none"]
    /\ probe \in {[fn |-> "sanitizeForAirtableFormula", arg |-> t, ret |-> <<>>,
                   path |-> <<>>, done |-> FALSE] : t \in Tokens}
    /\ payloads = "none"
    /\ sync = SyncOff

\* One call of the sanitizer; path is the filterByFormula string built with
\* its result: {token} = "<result>".
Sanitize ==
    /\ probe.fn = "sanitizeForAirtableFormula"
    /\ ~probe.done
    /\ probe' = [probe EXCEPT !.ret = sanitizeForAirtableFormula(probe.arg),
                              !.path = FilterByFormula(fields[1],
                                           sanitizeForAirtableFormula(probe.arg)),
                              !.done = TRUE]
    /\ UNCHANGED <<h, fs, srv, nextId, nextTmp, repl, payloads, sync>>

NextToken == Sanitize

SpecToken == InitToken /\ [][NextToken]_vars

-----------------------------------------------------------------------------
(* Properties of the upload pipeline.                                      *)

\* The request has ended: the handler returned, or the process exited.
Ended(r) == h[r].pc \in {"done", "crashed"}

\* The handler has issued its response (or has returned after it).
Answered(r) == h[r].pc \in {"return", "done"}

\* Entry i of the archive of request r is one the extractor does not skip and
\* whose name fails the path check.
BadPathAt(r, i) ==
    /\ i \in 1..Len(h[r].files)
    /\ ~IsSidecar(h[r].files[i])
    /\ ~validateZipFilePath(h[r].files[i].Name, h[r].destDir)

\* The extraction of request r has started: the detector let the archive pass.
Extracting(r) == h[r].bomb = "nil"

RECURSIVE SumSeq(_)
SumSeq(q) == IF q = <<>> THEN 0 ELSE Head(q) + SumSeq(Tail(q))

\* The declared uncompressed sizes of the counted entries, added up.
RECURSIVE DeclaredSum(_)
DeclaredSum(files) ==
    IF files = <<>> THEN 0
    ELSE (IF IsSidecar(Head(files)) THEN 0 ELSE DeclaredUncompressed(Head(files)))
         + DeclaredSum(Tail(files))

\* The entries of request r whose streams the extractor copies.
Copied(r) ==
    {i \in 1..Len(h[r].files) :
        ~IsSidecar(h[r].files[i]) /\ ~IsDirEntry(h[r].files[i])}

\* C1: every file or directory an extraction creates or writes lies strictly
\* inside the destination directory of its submission.
C1_WritesStayInside ==
    \A r \in Reqs : \A w \in h[r].io :
        HasPrefix(w[2], h[r].destDir \o <<Sep>>)

\* The elements of the absolute path the cleaned name resolves to under dest.
ResolvedElems(name, dest) ==
    CleanElems(Split(dest) \o Split(Clean(name)), <<>>, TRUE)

\* The resolved path is dest followed by at least one more element.
StrictlyInside(name, dest) ==
    LET res == ResolvedElems(name, dest)
        de == CleanElems(Split(dest), <<>>, TRUE)
    IN  Len(res) > Len(de) /\ SubSeq(res, 1, Len(de)) = de

\* The resolved path starts with the characters of dest without being dest or
\* lying below it.
Sibling(name, dest) ==
    LET p == <<Sep>> \o JoinSep(ResolvedElems(name, dest))
    IN  HasPrefix(p, dest) /\ p # dest /\ ~HasPrefix(p, dest \o <<Sep>>)

\* C2: validateZipFilePath accepts a name exactly when the cleaned name, joined
\* onto the destination directory, resolves strictly below that directory: a
\* name that resolves to the directory itself and a sibling that only shares
\* its leading characters are rejected.
C2_ValidateIffStrictlyInside ==
    probe.fn = "validateZipFilePath" /\ probe.done =>
        /\ probe.ret <=> StrictlyInside(probe.arg, ProbeDest)
        /\ ResolvedElems(probe.arg, ProbeDest) = ResolvedElems(<<>>, ProbeDest)
            => ~probe.ret
        /\ Sibling(probe.arg, ProbeDest) => ~probe.ret
        /\ probe.arg \in {<<>>, Dot, <<"a", Sep, ".", ".">>} => ~probe.ret

\* A sibling of the destination directory was checked and rejected.
C2_Witness ==
    /\ probe.fn = "validateZipFilePath" /\ probe.done
    /\ Sibling(probe.arg, ProbeDest)
    /\ ~probe.ret

\* C3: when a non-skipped entry fails the path check, the extraction never
\* gets past it: nothing is created for it or for a later entry, no success
\* is answered, no replication is dispatched, and when the extractor reaches
\* it the request is rejected with the invalid-path error.
C3_BadPathAborts ==
    \A r \in Reqs : \A i \in 1..Len(h[r].files) :
        Extracting(r) /\ BadPathAt(r, i) =>
            /\ h[r].idx <= i
            /\ \A w \in h[r].io : w[1] < i
            /\ h[r].status # 200
            /\ repl[r] = "none"
            /\ h[r].pc # "respond"
            /\ Answered(r) => h[r].status \in {400, 500}
            /\ Answered(r) /\ h[r].idx = i =>
                h[r].status = 400 /\ h[r].msg = MsgInvalidPath

\* A request was rejected for a bad path after an earlier entry was written and
\* with a later entry left.
C3_Witness ==
    \E r \in Reqs :
        /\ h[r].pc = "done"
        /\ h[r].msg = MsgInvalidPath
        /\ BadPathAt(r, h[r].idx)
        /\ h[r].io # {}
        /\ h[r].idx < Len(h[r].files)

C5_DeclaredTotalRejectedBeforeIO ==
    \A r \in Reqs :
        DeclaredSum(h[r].files) > maxTotalUncompressedBytes =>
            /\ h[r].bomb # "nil"
            /\ h[r].io = {}
            /\ h[r].opened = {}
            /\ h[r].pc \notin {"extract", "copy", "respond"}
            /\ h[r].status # 200
            /\ h[r].bomb # "none" /\ Answered(r) =>
                /\ h[r].status = 400
                /\ h[r].validationError
                /\ h[r].msg = MsgZipValidation

\* An archive was rejected for its declared total alone: no entry declares
\* more than the per-file limit.
C5_Witness ==
    \E r \in Reqs :
        /\ h[r].pc = "done"
        /\ h[r].bomb = ErrTotalSize
        /\ \A i \in 1..Len(h[r].files) :
            DeclaredUncompressed(h[r].files[i]) <= maxPerFileUncompressed

\* C6: no upload is accepted whose copied entries really hold more than the
\* per-file limit in one stream or more than the aggregate limit in total,
\* whatever sizes the archive declares.
C6_RealSizesEnforced ==
    \A r \in Reqs :
        h[r].status = 200 \/ h[r].pc = "respond" =>
            /\ \A i \in Copied(r) :
                SumSeq(h[r].files[i].content) <= maxPerFileUncompressed
            /\ SumSeq([i \in 1..Len(h[r].files) |->
                        IF i \in Copied(r) THEN SumSeq(h[r].files[i].content) ELSE 0])
                <= maxTotalUncompressedBytes

\* An archive that declares only zero sizes was rejected because one stream
\* produced more than the per-file limit.
C6_Witness ==
    \E r \in Reqs :
        /\ h[r].pc = "done"
        /\ h[r].status = 400
        /\ h[r].msg = MsgFileTooLarge
        /\ \A i \in 1..Len(h[r].files) : DeclaredUncompressed(h[r].files[i]) = 0
        /\ SumSeq(h[r].files[h[r].idx].content) > maxPerFileUncompressed

C8_BreachRemovesPartialFile ==
    \A r \in Reqs :
        LET perFile == h[r].writtenForFile > maxPerFileUncompressed
            total == h[r].totalWritten > maxTotalUncompressedBytes
        IN  /\ perFile <=> h[r].msg = MsgFileTooLarge
            /\ total /\ ~perFile <=> h[r].msg = MsgTotalTooLarge
            /\ perFile \/ total =>
                /\ Answered(r)
                /\ h[r].status = 400
                /\ h[r].validationError
                /\ ~Exists(fs, h[r].fpath)
                /\ \A w \in h[r].io : w[1] <= h[r].idx
                /\ repl[r] = "none"

\* A request was rejected for the aggregate cause while its current file was
\* within the per-file limit.
C8_Witness ==
    \E r \in Reqs :
        /\ h[r].pc = "done"
        /\ h[r].msg = MsgTotalTooLarge
        /\ h[r].writtenForFile > 0
        /\ h[r].idx = 3

\* C9: when a request has ended, the temporary file it created is gone.
C9_TempFileRemoved ==
    \A r \in Reqs :
        Ended(r) /\ h[r].tmp # <<>> => ~Exists(fs, h[r].tmp)

NoExtraction(r) ==
    /\ h[r].tmp = <<>>
    /\ h[r].files = <<>>
    /\ h[r].id = 0
    /\ h[r].destDir = <<>>
    /\ h[r].bomb = "none"
    /\ h[r].idx = 0
    /\ h[r].io = {}
    /\ h[r].opened = {}
    /\ h[r].chunks = <<>>
    /\ repl[r] = "none"

\* Request r carried a header and its handler has left the identity lookup.
PastLookup(r) ==
    h[r].field >= 1 /\ h[r].pc \notin {"off", "start", "parse", "auth", "lookup"}

\* C11: a lookup that returned no record is answered 401; a lookup that
\* failed (credentials not configured, or a query that ended in a transport
\* error, a non-200 status or an undecodable body) is answered 500 with a
\* message other than the invalid-credential one; neither request takes any
\* step of the extraction.
C11_LookupFailureClasses ==
    \A r \in Reqs :
        /\ h[r].lookup = "empty" =>
            h[r].status = 401 /\ h[r].msg = MsgInvalidToken /\ NoExtraction(r)
        /\ h[r].lookup = "error" =>
            h[r].status = 500 /\ h[r].msg # MsgInvalidToken /\ NoExtraction(r)
        /\ PastLookup(r) /\ ~srv =>
            h[r].lookup = "error" /\ h[r].queries = 0 /\ h[r].status = 500

\* A query failed after the first column gave no record: the request was
\* answered 500.
C11_Witness ==
    \E r \in Reqs :
        /\ h[r].pc = "done"
        /\ h[r].lookup = "error"
        /\ h[r].queries = Len(fields)
        /\ h[r].status = 500

\* Every entry of the archive of request r that the extractor does not skip
\* passes the path check, and the path written for it lies below destDir.
NamesInside(r) ==
    \A i \in 1..Len(h[r].files) :
        ~IsSidecar(h[r].files[i]) =>
            /\ validateZipFilePath(h[r].files[i].Name, h[r].destDir)
            /\ HasPrefix(TargetPath(h[r].destDir, h[r].files[i].Name),
                         h[r].destDir \o <<Sep>>)

\* The streams of the copied entries stay within the per-file budget and,
\* added up, within the aggregate budget.
WithinBudgets(r) ==
    /\ \A i \in Copied(r) : SumSeq(h[r].files[i].content) <= maxPerFileUncompressed
    /\ SumSeq([i \in 1..Len(h[r].files) |->
                 IF i \in Copied(r) THEN SumSeq(h[r].files[i].content) ELSE 0])
         <= maxTotalUncompressedBytes

\* Request r came with a valid token and a well-formed archive that passed
\* the detector, and its handler returned without an I/O failure.
WellFormedUpload(r) ==
    /\ h[r].pc = "done"
    /\ h[r].lookup = "found"
    /\ h[r].bomb = "nil"
    /\ NamesInside(r)
    /\ WithinBudgets(r)
    /\ h[r].status # 500

\* Request r was answered 200 with {ok, gameId, playUrl}, and every file entry
\* of its archive is a file at its relative path under /games/<gameId>/.
Succeeded(r) ==
    /\ h[r].status = 200
    /\ h[r].resp.Ok
    /\ h[r].resp.GameID = IdString(h[r].id)
    /\ h[r].resp.PlayURL = PlayPrefix \o h[r].resp.GameID \o <<Sep>>
    /\ \A i \in Copied(r) :
        IsFileAt(fs, GamesPrefix \o h[r].resp.GameID \o <<Sep>> \o h[r].files[i].Name)

\* C12: an upload with a valid token whose archive is well-formed, within the
\* detector's and the extractor's limits and whose names all resolve inside
\* the destination directory is answered 200 with ok, gameId and
\* playUrl = "/play/" + gameId + "/", and its file entries exist under
\* /games/<gameId>/.
C12_ValidUploadSucceeds ==
    \A r \in Reqs : WellFormedUpload(r) => Succeeded(r)

\* The same for the archives whose extracted names all end in ".zip": the
\* only uploads the file-type test lets through.
ZipOnlyUploadSucceeds ==
    \A r \in Reqs :
        /\ WellFormedUpload(r)
        /\ \A i \in 1..Len(h[r].files) :
            ~IsSidecar(h[r].files[i]) => isAllowedFileType(h[r].files[i].Name)
        => Succeeded(r)

\* C13: the replication of the directory of a request is dispatched only
\* after the extraction loop has gone through every entry, with no output
\* file open, and only for a request that was not rejected and did not fail:
\* while a request extracts, or once it has been answered with an error, no
\* replication of its directory exists.
C13_HandoffAfterExtraction ==
    \A r \in Reqs :
        /\ repl[r] # "none" =>
            /\ h[r].pc \in {"respond", "return", "done"}
            /\ h[r].bomb = "nil"
            /\ h[r].idx = Len(h[r].files) + 1
            /\ h[r].status \in {0, 200}
            /\ \A i \in Copied(r) :
                /\ i \in h[r].opened
                /\ \E w \in h[r].io : w[1] = i
        /\ h[r].pc \in {"mkdest", "bomb", "extract", "copy"} => repl[r] = "none"
        /\ h[r].status \notin {0, 200} => repl[r] = "none"

\* A three-entry archive was extracted, two streams copied, and its directory
\* handed to the replication before the response.
C13_Witness ==
    \E r \in Reqs :
        /\ repl[r] = "running"
        /\ h[r].pc = "respond"
        /\ Len(h[r].files) = 3
        /\ Cardinality(Copied(r)) = 2
        /\ Len(h[r].chunks) = 2

\* What the client of request r has received: the status and the body.
Received(r) == <<h[r].status, h[r].resp, h[r].validationError, h[r].msg>>

\* C14: the handler sends its 200 response without waiting for UploadFolder
\* (the response step is enabled whatever the state of the goroutine), and
\* the end of UploadFolder, success or failure, changes nothing of what the
\* client receives: a request answered 200 keeps its status and its body.
C14_DispatchIsDetached ==
    /\ [](\A r \in Reqs : h[r].pc = "respond" =>
            repl[r] # "none" /\ ENABLED Respond(r))
    /\ [](\A r \in Reqs : h[r].status = 200 =>
            h[r].resp = [Ok |-> TRUE, GameID |-> IdString(h[r].id),
                         PlayURL |-> PlayPrefix \o IdString(h[r].id) \o <<Sep>>])
    /\ [][\A r \in Reqs :
            repl[r] = "running" /\ repl'[r] \in {"ok", "failed"} =>
                /\ Received(r)' = Received(r)
                /\ h'[r].pc = h[r].pc]_vars

\* The replication failed after the handler had answered 200 and returned.
C14_Witness ==
    \E r \in Reqs :
        /\ h[r].pc = "done"
        /\ h[r].status = 200
        /\ h[r].resp.Ok
        /\ repl[r] = "failed"

\* The byte counters of the invocation serving request r.
Counters(r) == <<h[r].totalWritten, h[r].writtenForFile>>

\* Two requests that both hold an identifier, a temporary file or a
\* destination directory hold different ones, and no directory lies inside
\* the other.
DistinctResources ==
    \A r, q \in Reqs : r # q =>
        /\ h[r].id # 0 /\ h[q].id # 0 => h[r].id # h[q].id
        /\ h[r].tmp # <<>> /\ h[q].tmp # <<>> => h[r].tmp # h[q].tmp
        /\ h[r].destDir # <<>> /\ h[q].destDir # <<>> =>
            /\ h[r].destDir # h[q].destDir
            /\ ~HasPrefix(h[r].destDir, h[q].destDir \o <<Sep>>)

\* No request has created or written a path in the directory of another.
NoCrossWrites ==
    \A r, q \in Reqs : r # q /\ h[q].destDir # <<>> =>
        \A w \in h[r].io :
            w[2] # h[q].destDir /\ ~HasPrefix(w[2], h[q].destDir \o <<Sep>>)

\* A step that changes the counters of one request changes nothing of the
\* invocation serving another, and while a request extracts its aggregate
\* counter is the sum of the chunks it wrote itself.
CountersPrivate ==
    /\ [][\A r, q \in Reqs :
            r # q /\ Counters(r)' # Counters(r) => h'[q] = h[q]]_vars
    /\ [](\A r \in Reqs : h[r].pc \in {"extract", "copy", "respond"} =>
            h[r].totalWritten = SumSeq(h[r].chunks))

\* C15: two uploads handled at the same time get distinct identifiers,
\* distinct temporary files and disjoint destination directories, neither
\* writes into the directory of the other, and the byte counters of one are
\* not touched by the steps of the other.
C15_RequestsIsolated ==
    /\ []DistinctResources
    /\ []NoCrossWrites
    /\ CountersPrivate

\* The same without the cross writes.
ResourcesAndCountersIsolated ==
    /\ []DistinctResources
    /\ CountersPrivate

\* Both requests extract at the same time.
BothExtracting ==
    \A r \in Reqs : h[r].pc = "copy" /\ h[r].totalWritten > 0

\* A call of lolCheckForZipBomb has returned.
BombChecked == probe.fn = "lolCheckForZipBomb" /\ probe.done

\* The entries of an archive that the detector counts.
CountedEntries(files) == {i \in 1..Len(files) : ~IsSidecar(files[i])}

\* The declared uncompressed sizes of the entries lo..hi that are counted,
\* added up.
RECURSIVE DeclaredTotal(_, _, _)
DeclaredTotal(files, lo, hi) ==
    IF lo > hi THEN 0
    ELSE IF lo = hi
        THEN (IF IsSidecar(files[lo]) THEN 0 ELSE DeclaredUncompressed(files[lo]))
    ELSE DeclaredTotal(files, lo, (lo + hi) \div 2)
         + DeclaredTotal(files, (lo + hi) \div 2 + 1, hi)

\* No counted entry of the archive is over the per-file limit or over the
\* ratio limit, and together they are not over the aggregate limit.
SizesWithinLimits(files) ==
    /\ \A i \in CountedEntries(files) :
        /\ DeclaredUncompressed(files[i]) <= maxPerFileUncompressed
        /\ \/ DeclaredCompressed(files[i]) = 0
           \/ ~ExactRatioOver(DeclaredUncompressed(files[i]),
                              DeclaredCompressed(files[i]))
    /\ DeclaredTotal(files, 1, Len(files)) <= maxTotalUncompressedBytes

\* C16 as stated: the detector returns the too-many-files error for exactly
\* the archives with more than 2000 counted entries, the entries under
\* __MACOSX/ not being counted.
C16_TooManyFilesIffOver2000 ==
    BombChecked =>
        LET files == Build(probe.arg) IN
        probe.ret = ErrTooManyFiles
            <=> Cardinality(CountedEntries(files)) > maxZipEntries

\* C16, amended: an archive with more than 2000 counted entries is rejected,
\* with the too-many-files error when its counted entries are within the
\* size and ratio limits (another error is returned when one of the first
\* 2000 breaks such a limit); an archive with at most 2000 counted entries
\* never gets the too-many-files error; entries under __MACOSX/ are not
\* counted.
C16_TooManyFilesOver2000 ==
    BombChecked =>
        LET files == Build(probe.arg)
            counted == Cardinality(CountedEntries(files))
        IN  /\ counted > maxZipEntries => probe.ret # "nil"
            /\ counted > maxZipEntries /\ SizesWithinLimits(files)
                => probe.ret = ErrTooManyFiles
            /\ counted <= maxZipEntries => probe.ret # ErrTooManyFiles
            /\ counted <= maxZipEntries /\ SizesWithinLimits(files)
                => probe.ret = "nil"

\* An archive of 2003 entries, two of them sidecars, was rejected for its
\* 2001 counted entries.
C16_Witness ==
    /\ BombChecked
    /\ Len(Build(probe.arg)) = maxZipEntries + 3
    /\ Cardinality(CountedEntries(Build(probe.arg))) = maxZipEntries + 1
    /\ SizesWithinLimits(Build(probe.arg))
    /\ probe.ret = ErrTooManyFiles

\* The counted entries whose two declared sizes are nonzero and whose
\* declared uncompressed size is more than 100 times the compressed one.
OverRatio(files) ==
    {i \in CountedEntries(files) :
        /\ DeclaredCompressed(files[i]) > 0
        /\ DeclaredUncompressed(files[i]) > 0
        /\ ExactRatioOver(DeclaredUncompressed(files[i]),
                          DeclaredCompressed(files[i]))}

\* No other limit of the detector is broken: at most 2000 counted entries,
\* none over the per-file limit, the aggregate within its limit.
OnlyRatioAtStake(files) ==
    /\ Cardinality(CountedEntries(files)) <= maxZipEntries
    /\ \A i \in CountedEntries(files) :
        DeclaredUncompressed(files[i]) <= maxPerFileUncompressed
    /\ DeclaredTotal(files, 1, Len(files)) <= maxTotalUncompressedBytes

\* C17: an archive with a counted entry of nonzero declared sizes whose
\* uncompressed size is more than 100 times its compressed size is rejected,
\* with the excessive-ratio error when it breaks no other limit; and the
\* ratio error is returned only for an archive that has an entry with both
\* sizes nonzero.
C17_RatioOver100Rejected ==
    BombChecked =>
        LET files == Build(probe.arg) IN
        /\ OverRatio(files) # {} => probe.ret # "nil"
        /\ OverRatio(files) # {} /\ OnlyRatioAtStake(files) => probe.ret = ErrRatio
        /\ probe.ret = ErrRatio =>
            \E i \in CountedEntries(files) :
                DeclaredCompressed(files[i]) > 0 /\ DeclaredUncompressed(files[i]) > 0

\* The counted entries that declare more than 200 MiB.
OverPerFile(files) ==
    {i \in CountedEntries(files) :
        DeclaredUncompressed(files[i]) > maxPerFileUncompressed}

\* The tests that come before the per-file test find nothing: at most 2000
\* counted entries, the aggregate within its limit, no entry with an integer
\* ratio over 100.
OnlyPerFileAtStake(files) ==
    /\ Cardinality(CountedEntries(files)) <= maxZipEntries
    /\ DeclaredTotal(files, 1, Len(files)) <= maxTotalUncompressedBytes
    /\ \A i \in CountedEntries(files) :
        \/ DeclaredCompressed(files[i]) = 0
        \/ DeclaredUncompressed(files[i]) \div DeclaredCompressed(files[i])
             <= maxCompressionRatio

\* C18 as stated: an archive with a counted entry that declares more than
\* 200 MiB is rejected with the per-file error.
C18_PerFileReasonOver200MiB ==
    BombChecked =>
        (OverPerFile(Build(probe.arg)) # {} => probe.ret = ErrPerFile)

\* C18, amended: an archive with a counted entry that declares more than
\* 200 MiB is rejected; the error is the per-file one when the tests made
\* before it (entry count, aggregate size, ratio) find nothing, and the
\* per-file error is returned for no other archive.
C18_Over200MiBRejected ==
    BombChecked =>
        LET files == Build(probe.arg) IN
        /\ OverPerFile(files) # {} => probe.ret # "nil"
        /\ OverPerFile(files) # {} /\ OnlyPerFileAtStake(files)
            => probe.ret = ErrPerFile
        /\ probe.ret = ErrPerFile => OverPerFile(files) # {}

\* An entry declaring 200 MiB + 1 for 100 MiB compressed was rejected with
\* the per-file error.
C18_Witness ==
    /\ BombChecked
    /\ probe.ret = ErrPerFile
    /\ \E i \in OverPerFile(Build(probe.arg)) :
        DeclaredCompressed(Build(probe.arg)[i]) > 0

\* A call of sanitizeForAirtableFormula has returned.
Sanitized == probe.fn = "sanitizeForAirtableFormula" /\ probe.done

\* The number of backslashes that stand in a row just before position i of s.
RECURSIVE BackslashesBefore(_, _)
BackslashesBefore(s, i) ==
    IF i > 1 /\ s[i - 1] = "\\" THEN 1 + BackslashesBefore(s, i - 1) ELSE 0

\* C19: the output of sanitizeForAirtableFormula has no whitespace, and each
\* of its double quotes is preceded by an odd number of backslashes, so that
\* no quote of the token ends the string literal of the formula.
C19_SanitizedTokenCannotEscape ==
    Sanitized =>
        /\ \A i \in 1..Len(probe.ret) : ~IsSpace(probe.ret[i])
        /\ \A i \in 1..Len(probe.ret) :
            probe.ret[i] = "\"" => BackslashesBefore(probe.ret, i) % 2 = 1

\* What the code does instead: no whitespace is left, and every double quote
\* of the output follows an even, nonzero number of backslashes.
SanitizedQuotesFollowEvenBackslashes ==
    Sanitized =>
        /\ \A i \in 1..Len(probe.ret) : ~IsSpace(probe.ret[i])
        /\ \A i \in 1..Len(probe.ret) :
            probe.ret[i] = "\"" =>
                /\ BackslashesBefore(probe.ret, i) >= 2
                /\ BackslashesBefore(probe.ret, i) % 2 = 0

\* C20: an authenticated upload whose file zip.OpenReader cannot open is
\* answered 400, and for that request no identifier was minted, no
\* destination directory created, no entry touched and no replication
\* dispatched.
C20_NotAnArchiveIs400 ==
    \A r \in Reqs :
        h[r].upload = "notzip" =>
            /\ h[r].lookup = "found"
            /\ h[r].tmp # <<>>
            /\ h[r].status = 400
            /\ h[r].msg = MsgNotZip
            /\ h[r].id = 0
            /\ h[r].destDir = <<>>
            /\ h[r].files = <<>>
            /\ h[r].bomb = "none"
            /\ h[r].io = {}
            /\ repl[r] = "none"
            /\ nextId = 1
            /\ \A q \in DOMAIN fs : ~HasPrefix(q, <<Sep, "g">>)

\* An upload that is no archive was answered 400 and its handler returned.
C20_Witness ==
    \E r \in Reqs :
        /\ h[r].pc = "done"
        /\ h[r].upload = "notzip"
        /\ h[r].status = 400

\* C21: a request whose method is not POST is answered 405 and nothing else
\* happens for it: its form is not parsed, its header not read, the identity
\* provider not queried, and no temporary file or directory is created.
C21_NonPostIs405 ==
    \A r \in Reqs :
        h[r].method \notin {"", "POST"} =>
            /\ h[r].status = 405
            /\ h[r].msg = MsgMethod
            /\ ~h[r].formOk
            /\ h[r].authHeader = <<>>
            /\ h[r].token = <<>>
            /\ h[r].queries = 0
            /\ h[r].lookup = "none"
            /\ h[r].upload = "none"
            /\ NoExtraction(r)
            /\ fs = InitFs
            /\ nextTmp = 1

\* A GET request was answered 405 and its handler returned.
C21_Witness ==
    \E r \in Reqs :
        /\ h[r].pc = "done"
        /\ h[r].method = "GET"
        /\ h[r].status = 405

\* C22 (as stated): at most one identity-provider query is issued per
\* request.
C22_AtMostOneQuery ==
    \A r \in Reqs : h[r].queries <= 1

\* C22 (amended): a request makes one lookup of at most one query per column
\* name, the second column being queried only after the first returned no
\* record; a query that failed is not repeated, and a request that was
\* answered issues no further query and keeps its answer.
C22_OneQueryPerColumn ==
    /\ [](\A r \in Reqs :
            /\ h[r].queries <= Len(fields)
            /\ h[r].queries <= h[r].field
            /\ h[r].queries > 1 => Records(fields[1], h[r].token) = 0
            /\ h[r].lookup = "error" => Answered(r))
    /\ [][\A r \in Reqs :
            Answered(r) => /\ h'[r].queries = h[r].queries
                           /\ h'[r].lookup = h[r].lookup
                           /\ h'[r].status = h[r].status]_vars

\* A request whose token is stored under the second column name was
\* recognised by the second query of its lookup.
C22_Witness ==
    \E r \in Reqs :
        /\ h[r].queries = 2
        /\ h[r].lookup = "found"
        /\ h[r].field = 2

\* Entry i of the archive of request r has a name the path check refuses,
\* whether or not the name starts with the sidecar prefix.
EscapingAt(r, i) ==
    /\ i \in 1..Len(h[r].files)
    /\ ~validateZipFilePath(h[r].files[i].Name, h[r].destDir)

\* C23: the extractor runs the path check on every entry, sidecar entries
\* included: the loop never goes past an entry with an escaping name, and the
\* request of such an archive is never answered 200.
C23_PathCheckOnSidecars ==
    \A r \in Reqs :
        Extracting(r) =>
            \A i \in 1..Len(h[r].files) :
                EscapingAt(r, i) => /\ h[r].idx <= i
                                    /\ h[r].status # 200

\* The handler of request r has sent a failure.
Rejected(r) == Answered(r) /\ h[r].status # 200

\* Every directory entry the extractor went through exists as a directory.
DirectoriesCreated(r) ==
    \A i \in 1..Len(h[r].files) :
        LET f == h[r].files[i] IN
        (i < h[r].idx /\ ~IsSidecar(f) /\ IsDirEntry(f)) =>
            IsDirAt(fs, TargetPath(h[r].destDir, f.Name))

\* A handler that returned has sent a status.
OneOutcome ==
    \A r \in Reqs : h[r].pc = "done" => h[r].status # 0

\* A status that was sent does not change, and after a failure was sent the
\* handler creates nothing, goes to no further entry and starts no
\* replication: it only removes its temporary file.
NothingAfterRejection ==
    \A r \in Reqs :
        /\ h[r].status # 0 => h'[r].status = h[r].status
        /\ Rejected(r) => /\ h'[r].io = h[r].io
                           /\ h'[r].idx = h[r].idx
                           /\ h'[r].opened = h[r].opened
                           /\ repl'[r] = repl[r]
                           /\ (h'[r] # h[r] => DOMAIN fs' \subseteq DOMAIN fs)

\* Each returned request has one status, and nothing follows a failure.
FailuresAbortSynchronously == []OneOutcome /\ [][NothingAfterRejection]_vars

\* C24: each returned request has exactly one status, a request is never
\* answered 200 when a step of its extraction failed, and after a failure was
\* sent the handler performs no further step of the pipeline.
C24_NoSuccessAfterFailedStep ==
    /\ [](OneOutcome /\ \A r \in Reqs : h[r].status = 200 => DirectoriesCreated(r))
    /\ [][NothingAfterRejection]_vars

\* The last rc.Read of request r returned an error other than io.EOF.
ReadFailed(r) == h[r].readErr = "error"

\* Entry i is a file entry the extractor copied to the end of its stream and
\* no later entry reached so far has the same target path.
FullyExtracted(r, i) ==
    /\ i \in Copied(r)
    /\ i < h[r].idx
    /\ \A j \in (i + 1)..Len(h[r].files) :
          (j <= h[r].idx /\ ~IsSidecar(h[r].files[j])) =>
              TargetPath(h[r].destDir, h[r].files[j].Name)
                  # TargetPath(h[r].destDir, h[r].files[i].Name)

\* What a failed read leaves behind: the request is answered, no entry after
\* the failing one was touched, no replication was started, and each entry
\* extracted before is on disk with all the bytes of its stream.
AbortedAtEntry(r) ==
    /\ Answered(r)
    /\ h[r].idx \in 1..Len(h[r].files)
    /\ \A w \in h[r].io : w[1] <= h[r].idx
    /\ \A i \in h[r].opened : i <= h[r].idx
    /\ repl[r] = "none"
    /\ \A i \in 1..Len(h[r].files) :
          FullyExtracted(r, i) =>
              LET q == TargetPath(h[r].destDir, h[r].files[i].Name) IN
              /\ IsFileAt(fs, q)
              /\ fs[q].size = SumSeq(h[r].files[i].content)

DisallowedAt(r, i) ==
    /\ i \in 1..Len(h[r].files)
    /\ ~IsSidecar(h[r].files[i])
    /\ validateZipFilePath(h[r].files[i].Name, h[r].destDir)
    /\ ~HasSuffix(h[r].files[i].Name, ZipSuffix)

\* C26: the extractor refuses every entry that is not skipped, directory
\* entries included, when its name does not end in ".zip": the test comes
\* after the path check and before anything is created for the entry, the
\* request is answered 400 and nothing is created for that entry or a later
\* one.
C26_DisallowedEntryIs400 ==
    \A r \in Reqs :
        Extracting(r) =>
            /\ \A i \in 1..Len(h[r].files) :
                  DisallowedAt(r, i) =>
                      /\ h[r].idx <= i
                      /\ \A w \in h[r].io : w[1] < i
                      /\ \A j \in h[r].opened : j < i
                      /\ h[r].status # 200
                      /\ repl[r] = "none"
                      /\ (h[r].idx = i /\ Answered(r)) =>
                            /\ h[r].status = 400
                            /\ h[r].msg = MsgFileType
                            /\ ~h[r].validationError
            /\ h[r].msg = MsgFileType => DisallowedAt(r, h[r].idx)

\* The second entry of an archive is a directory entry whose name does not
\* end in ".zip": the request was answered 400 after the first entry was
\* extracted.
C26_Witness ==
    \E r \in Reqs :
        /\ h[r].pc = "done"
        /\ h[r].status = 400
        /\ h[r].msg = MsgFileType
        /\ h[r].idx = 2
        /\ IsDirEntry(h[r].files[2])
        /\ \E w \in h[r].io : w[1] = 1

\* The name of entry f starts with "__MACOSX/".
UnderMacosx(f) == HasPrefix(f.Name, MacosxPrefix)

\* The entries of an archive that are not under "__MACOSX/", in order.
WithoutMacosx(files) == SelectSeq(files, LAMBDA f : ~UnderMacosx(f))

\* The bytes of the streams of the file entries 1..n that are not under
\* "__MACOSX/".
RECURSIVE StreamBytes(_, _)
StreamBytes(files, n) ==
    IF n = 0 THEN 0
    ELSE StreamBytes(files, n - 1)
         + (IF UnderMacosx(files[n]) \/ IsDirEntry(files[n])
                THEN 0 ELSE SumSeq(files[n].content))

\* C27: entries whose name starts with "__MACOSX/" are skipped by both
\* passes: the detector answers as for the archive without them, the
\* extractor's byte counters hold bytes of other entries only, and nothing is
\* created or opened for them.
C27_SidecarsSkippedByBothPasses ==
    \A r \in Reqs :
        /\ h[r].bomb # "none" => h[r].bomb = lolCheckForZipBomb(WithoutMacosx(h[r].files))
        /\ Extracting(r) =>
            /\ \A w \in h[r].io : ~UnderMacosx(h[r].files[w[1]])
            /\ \A i \in h[r].opened : ~UnderMacosx(h[r].files[i])
            /\ \A q \in DOMAIN fs :
                  ~HasPrefix(q, h[r].destDir \o <<Sep>>
                                  \o SubSeq(MacosxPrefix, 1, Len(MacosxPrefix) - 1))
            /\ h[r].idx <= Len(h[r].files) =>
                  h[r].totalWritten <= StreamBytes(h[r].files, h[r].idx)
            /\ h[r].status = 200 =>
                  h[r].totalWritten = StreamBytes(h[r].files, Len(h[r].files))
            /\ h[r].pc = "copy" =>
                  ~UnderMacosx(h[r].files[h[r].idx])

\* An archive holding a sidecar entry that declares more than every limit
\* and one file entry was extracted: the request was answered 200 and the
\* aggregate counter holds the bytes of the file entry.
C27_Witness ==
    \E r \in Reqs :
        /\ h[r].pc = "done"
        /\ h[r].status = 200
        /\ Len(h[r].files) = 2
        /\ UnderMacosx(h[r].files[1])
        /\ DeclaredUncompressed(h[r].files[1]) > maxTotalUncompressedBytes
        /\ h[r].totalWritten = 1
        /\ h[r].io # {}

\* The regular files of fsys that lie under the directory dir.
FilesUnder(fsys, dir) ==
    {q \in DOMAIN fsys : IsFileAt(fsys, q) /\ HasPrefix(q, dir \o <<Sep>>)}

\* The sizes of the files of the set ps, added up.
RECURSIVE SizeOf(_, _)
SizeOf(fsys, ps) ==
    IF ps = {} THEN 0
    ELSE LET q == CHOOSE x \in ps : TRUE
         IN  fsys[q].size + SizeOf(fsys, ps \ {q})

\* The bytes present under the directory dir.
BytesUnder(fsys, dir) == SizeOf(fsys, FilesUnder(fsys, dir))

\* C28: at every moment of an extraction, each file an entry was extracted
\* to holds at most 200 MiB, the files under the directory of the submission
\* hold at most 500 MiB together, and the file being written holds the bytes
\* counted for it: a chunk that takes a counter over its budget is not
\* written.
C28_BytesOnDiskWithinBudgets ==
    \A r \in Reqs :
        Extracting(r) =>
            /\ \A w \in h[r].io :
                  IsFileAt(fs, w[2]) => fs[w[2]].size <= maxPerFileUncompressed
            /\ BytesUnder(fs, h[r].destDir) <= maxTotalUncompressedBytes
            /\ h[r].pc = "copy" =>
                  /\ IsFileAt(fs, h[r].fpath)
                  /\ fs[h[r].fpath].size = h[r].writtenForFile
                  /\ h[r].writtenForFile <= maxPerFileUncompressed
                  /\ h[r].totalWritten <= maxTotalUncompressedBytes

\* An archive repeats the name of its first entry in its second, each stream
\* a whole per-file budget, and its third entry breached the aggregate
\* budget: the directory holds one per-file budget of bytes.
C28_Witness ==
    \E r \in Reqs :
        /\ h[r].pc = "done"
        /\ h[r].msg = MsgTotalTooLarge
        /\ h[r].idx = 3
        /\ h[r].files[1].Name = h[r].files[2].Name
        /\ SumSeq(h[r].chunks) = 2 * maxPerFileUncompressed
        /\ BytesUnder(fs, h[r].destDir) = maxPerFileUncompressed

-----------------------------------------------------------------------------
(* The synchronization server: its events.                                 *)

\* The upload handler's variables, which the synchronization server leaves.
uploadVars == <<h, fs, srv, nextId, nextTmp, repl, probe, payloads>>

\* The first timer fires.
Boot ==
    /\ sync.loop = "boot"
    /\ sync' = BootStep(sync)
    /\ UNCHANGED uploadVars

\* The timer armed after a run fires.
Timer ==
    /\ sync.loop \in {"delay1", "delay5"}
    /\ sync.syncCount < MaxRuns
    /\ sync' = TimerStep(sync)
    /\ UNCHANGED uploadVars

\* The performFullSync of the loop settles.
Settle ==
    /\ sync.loop = "running"
    /\ \E out \in PerformOutcomes(sync) : sync' = SettleStep(sync, out)
    /\ UNCHANGED uploadVars

\* A POST /api/sync arrives.
PostSync(m) ==
    /\ sync.loop # "off"
    /\ sync.post[m].pc = "idle"
    /\ sync' = PostSyncStep(sync, m)
    /\ UNCHANGED uploadVars

\* The performFullSync of a manual trigger settles.
PostSettle(m) ==
    /\ sync.post[m].pc = "running"
    /\ \E out \in PerformOutcomes(sync) : sync' = PostSettleStep(sync, m, out)
    /\ UNCHANGED uploadVars

\* The server has started: no request is being handled by the upload service.
InitSync ==
    /\ h = [r \in Reqs |-> Off]
    /\ fs = InitFs
    /\ srv = TRUE
    /\ nextId = 1
    /\ nextTmp = 1
    /\ repl = [r \in Reqs |-> "none"]
    /\ probe = NoProbe
    /\ payloads = "none"
    /\ \E key \in BOOLEAN : sync = SyncBoot(key)

NextSync ==
    \/ Boot
    \/ Timer
    \/ Settle
    \/ \E m \in Triggers : PostSync(m)
    \/ \E m \in Triggers : PostSettle(m)

SpecSync == InitSync /\ [][NextSync]_vars

\* The timers of the Node.js event loop fire.
SpecSyncFair == SpecSync /\ WF_vars(Boot) /\ WF_vars(Timer)

\* The calls of performFullSync in progress.
InProgress ==
    Cardinality({m \in Triggers : sync.post[m].pc = "running"})
    + (IF sync.loop = "running" THEN 1 ELSE 0)

\* C29: at most one performFullSync is in progress at any time, whether
\* started by the loop or by a manual trigger.
C29_AtMostOneSyncInProgress == InProgress <= 1

\* A manual trigger that arrives while the flag is set, as it is during every
\* run of the loop and while the loop's timer is pending, is answered 409
\* and calls nothing.
TriggerRefusedWhileFlagSet ==
    [][\A m \in Triggers :
          (sync.post[m].pc = "idle" /\ sync'.post[m].pc # "idle"
              /\ (sync.isSyncRunning \/ sync.loop \in {"running", "delay1", "delay5"}))
          => sync'.post[m] = [pc |-> "done", status |-> 409]]_vars

\* The loop is waiting for a timer to start its next run.
Waiting == sync.loop \in {"boot", "delay1", "delay5"}

\* What one step does to the loop's state: a run starts exactly when the
\* counter goes up by one, 10 s after the start, 1 s after a completed run
\* and 5 s after a failed one, with the flag set; a completed run stores its
\* result and the time and clears the error; a failed run stores the error
\* and keeps the result and the time; the loop never ends without a timer.
LoopStep ==
    /\ sync'.loop # "stopped"
    /\ sync'.syncCount \in {sync.syncCount, sync.syncCount + 1}
    /\ sync'.syncCount = sync.syncCount + 1
          <=> (sync.loop # "running" /\ sync'.loop = "running")
    /\ (sync.loop # "running" /\ sync'.loop = "running") =>
          /\ sync'.isSyncRunning
          /\ sync'.clock = sync.clock + (IF sync.loop = "boot" THEN 10
                                         ELSE IF sync.loop = "delay1" THEN 1 ELSE 5)
    /\ (sync.loop = "running" /\ sync'.loop # "running") =>
          /\ sync'.loop \in {"delay1", "delay5"}
          /\ sync'.isSyncRunning
          /\ sync'.loop = "delay1" =>
                /\ sync'.syncError = <<>>
                /\ sync'.lastSyncTime = <<sync.clock>>
                /\ sync'.lastSyncResult = <<sync.syncCount>>
          /\ sync'.loop = "delay5" =>
                /\ sync'.syncError # <<>>
                /\ sync'.lastSyncTime = sync.lastSyncTime
                /\ sync'.lastSyncResult = sync.lastSyncResult
    /\ sync'.loop = sync.loop =>
          /\ sync'.syncError = sync.syncError
          /\ sync'.lastSyncTime = sync.lastSyncTime
          /\ sync'.lastSyncResult = sync.lastSyncResult
          /\ sync'.isSyncRunning = sync.isSyncRunning

\* C30: the continuous loop never stops: whenever it waits after a run that
\* completed or failed (or for its first run), a new run begins with the
\* flag set and syncCount one higher; a completed run clears syncError and
\* sets lastSyncTime and lastSyncResult, a failed run sets syncError and
\* keeps the other two; syncCount goes up by exactly one per started run.
C30_LoopNeverStops ==
    /\ [][LoopStep]_vars
    /\ \A k \in 0..(MaxRuns - 1) :
          (Waiting /\ sync.syncCount = k)
              ~> (sync.loop = "running" /\ sync.syncCount = k + 1 /\ sync.isSyncRunning)

\* The first run completed and the second failed: the loop waits for its
\* third run with the error of the second and the result of the first.
C30_Witness ==
    /\ sync.loop = "delay5"
    /\ sync.syncCount = 2
    /\ sync.syncError # <<>>
    /\ sync.lastSyncResult = <<1>>
    /\ sync.lastSyncTime = <<10>>
    /\ sync.clock = 11

-----------------------------------------------------------------------------
(* retryWithBackoff of the synchronization server.                         *)

MAX_RETRIES == 5
BASE_DELAY == 1000

\* String.prototype.includes: sub occurs in text, character by character.
Includes(text, sub) ==
    \E i \in 0..(Len(text) - Len(sub)) : SubSeq(text, i + 1, i + Len(sub)) = sub

Text429 == <<"4", "2", "9">>
TextRateLimit == <<"r", "a", "t", "e", " ", "l", "i", "m", "i", "t">>

\* The test that takes every error for a rate-limit error.
IsRateLimit_Any(message) == TRUE

\* error.message.includes('429') || error.message.includes('rate limit')
IsRateLimit(message) == Includes(message, Text429) \/ Includes(message, TextRateLimit)

\* const delay = BASE_DELAY * Math.pow(2, attempt)
BackoffDelay(attempt) == BASE_DELAY * (2 ^ attempt)

\* The messages of the errors fn throws in the model: the rate-limit error
\* of fetchHackatimeData, a message with the words in lower case, one with a
\* capital letter and no number, a server error, and a message that holds
\* the digits 429 inside another text.
ErrorMessages ==
    { Text429 \o <<":", " ", "R", "a", "t", "e">>,
      TextRateLimit,
      <<"R", "a", "t", "e", " ", "l", "i", "m", "i", "t">>,
      <<"5", "0", "0">>,
      <<"i", "d", "4", "2", "9", "x">> }

\* What one call of fn ends in: a value, or an error with its message.
FnOutcomes ==
    {[ok |-> TRUE, message |-> <<>>]}
    \cup {[ok |-> FALSE, message |-> m] : m \in ErrorMessages}

\* The values of maxRetries the model calls retryWithBackoff with; the
\* callers use the default.
RetryLimits == {0, 1, 2, MAX_RETRIES}

\* The call retryWithBackoff(fn, maxRetries) at the start of its loop. outs
\* is what the calls of fn ended in, delays the waits in milliseconds.
RetryStart(maxRetries) ==
    [fn |-> "retryWithBackoff", maxRetries |-> maxRetries, attempt |-> 0,
     pc |-> "call", outs |-> <<>>, delays |-> <<>>, result |-> 0, error |-> <<>>]

\* One pass of the loop up to its wait: fn is called; its value is returned,
\* a rate-limit error before the last attempt leads to the wait, every other
\* error is thrown.
RetryCallStep(p, out) ==
    LET q == [p EXCEPT !.outs = Append(@, out)] IN
    IF out.ok THEN [q EXCEPT !.pc = "returned", !.result = Len(q.outs)]
    ELSE IF IsRateLimit(out.message) /\ p.attempt # p.maxRetries
        THEN [q EXCEPT !.pc = "wait"]
    ELSE [q EXCEPT !.pc = "thrown", !.error = out.message]

\* await new Promise(resolve => setTimeout(resolve, delay)); continue
RetryWaitStep(p) ==
    [p EXCEPT !.delays = Append(@, BackoffDelay(p.attempt)),
              !.attempt = @ + 1, !.pc = "call"]

InitRetry ==
    /\ h = [r \in Reqs |-> Off]
    /\ fs = InitFs
    /\ srv = TRUE
    /\ nextId = 1
    /\ nextTmp = 1
    /\ repl = [r \in Reqs |-> "none"]
    /\ probe \in {RetryStart(n) : n \in RetryLimits}
    /\ payloads = "none"
    /\ sync = SyncOff

RetryCall ==
    /\ probe.fn = "retryWithBackoff"
    /\ probe.pc = "call"
    /\ probe.attempt <= probe.maxRetries
    /\ \E out \in FnOutcomes : probe' = RetryCallStep(probe, out)
    /\ UNCHANGED <<h, fs, srv, nextId, nextTmp, repl, payloads, sync>>

RetryWait ==
    /\ probe.fn = "retryWithBackoff"
    /\ probe.pc = "wait"
    /\ probe' = RetryWaitStep(probe)
    /\ UNCHANGED <<h, fs, srv, nextId, nextTmp, repl, payloads, sync>>

NextRetry == RetryCall \/ RetryWait

SpecRetry == InitRetry /\ [][NextRetry]_vars

\* The message holds "429" or "rate limit".
RateLimited(message) ==
    \/ \E i \in 1..(Len(message) - 2) : SubSeq(message, i, i + 2) = <<"4", "2", "9">>
    \/ \E i \in 1..(Len(message) - 9) :
          SubSeq(message, i, i + 9) = <<"r", "a", "t", "e", " ", "l", "i", "m", "i", "t">>

\* C31: retryWithBackoff returns the value of the first call of fn that
\* succeeds; every call before the last one ended in a rate-limit error and
\* was followed by a wait of BASE_DELAY * 2^attempt; an error that is no
\* rate-limit error is thrown at once; fn is called at most maxRetries + 1
\* times and the rate-limit error of the last of them is thrown.
C31_RetryOnlyRateLimits ==
    LET p == probe
        calls == Len(p.outs)
    IN  /\ calls <= p.maxRetries + 1
        /\ \A i \in 1..(calls - 1) :
              ~p.outs[i].ok /\ RateLimited(p.outs[i].message)
        /\ Len(p.delays) = p.attempt
        /\ \A i \in 1..Len(p.delays) : p.delays[i] = BASE_DELAY * (2 ^ (i - 1))
        /\ p.pc = "call" => calls = p.attempt
        /\ p.pc \in {"wait", "returned", "thrown"} => calls = p.attempt + 1
        /\ p.pc = "wait" => RateLimited(p.outs[calls].message) /\ calls <= p.maxRetries
        /\ p.pc = "returned" => p.outs[calls].ok /\ p.result = calls
        /\ p.pc = "thrown" =>
              /\ ~p.outs[calls].ok
              /\ p.error = p.outs[calls].message
              /\ RateLimited(p.error) => calls = p.maxRetries + 1
        /\ (calls > 0 /\ ~p.outs[calls].ok /\ ~RateLimited(p.outs[calls].message))
              => p.pc = "thrown"

\* With the default limit fn was called six times, each call ending in a
\* rate-limit error: the waits were 1, 2, 4, 8 and 16 seconds and the last
\* error was thrown.
C31_Witness ==
    /\ probe.pc = "thrown"
    /\ probe.maxRetries = MAX_RETRIES
    /\ Len(probe.outs) = MAX_RETRIES + 1
    /\ probe.delays = <<1000, 2000, 4000, 8000, 16000>>

-----------------------------------------------------------------------------
(* performFullSync: the Hackatime data of the users and the updates.       *)

\* String.prototype.toLowerCase on the project names of the model.
ToLower(name) == IF name = "A" THEN "a" ELSE IF name = "B" THEN "b" ELSE name

\* A project of the Hackatime statistics.
Project(name, seconds) == [name |-> name, total_seconds |-> seconds]

\* What fetchHackatimeData returns for a user in the model: two projects,
\* two projects whose names differ in case only, or no project.
HackatimeData ==
    { [projects |-> <<Project("a", 5), Project("b", 7)>>],
      [projects |-> <<Project("A", 3), Project("a", 5)>>],
      [projects |-> <<>>] }

\* The slack ids of the model.
SlackIds == {"u1", "u2"}

\* A record of the Games table: its slack id ("" when the field is missing)
\* and its Hackatime Projects field, listed is whether the field is present.
Game(slackId, listed, names) == [slackId |-> slackId, listed |-> listed, names |-> names]

\* The project lists of the games of the model: no field, one project, a
\* project in another case followed by a second one, a project listed twice.
ProjectLists == {<<"a">>, <<"A", "b">>, <<"a", "a">>, <<"b">>}

GameRecords ==
    {Game("", TRUE, <<"a">>)}
    \cup {Game(u, FALSE, <<>>) : u \in SlackIds}
    \cup {Game(u, TRUE, l) : u \in SlackIds, l \in ProjectLists}

\* hackatimeData.projects.find(p => p.name && p.name.toLowerCase() === lower):
\* the index of the first such project, 0 when there is none.
FindProject(projects, lower) ==
    LET hits == {i \in 1..Len(projects) :
                    projects[i].name # "" /\ ToLower(projects[i].name) = lower}
    IN  IF hits = {} THEN 0 ELSE CHOOSE i \in hits : \A j \in hits : i <= j

\* The claim test that finds no project claimed.
AlreadyClaimed_Never(claimed, lower) == FALSE

\* claimedProjects.has(projectNameLower)
AlreadyClaimed(claimed, lower) == lower \in claimed

\* The loop over projectNames from name k on; acc holds totalSeconds and the
\* claimed set.
RECURSIVE ClaimLoop(_, _, _, _)
ClaimLoop(data, names, k, acc) ==
    IF k > Len(names) THEN acc
    ELSE LET lower == ToLower(names[k])
             i == FindProject(data.projects, lower)
         IN  IF names[k] = "" \/ AlreadyClaimed(acc.claimed, lower) \/ i = 0
                 THEN ClaimLoop(data, names, k + 1, acc)
             ELSE ClaimLoop(data, names, k + 1,
                      [totalSeconds |-> acc.totalSeconds + data.projects[i].total_seconds,
                       claimed |-> acc.claimed \cup {lower}])

\* calculateProjectSecondsWithClaiming(hackatimeData, gameProjectsField,
\* claimedProjects): the seconds of the game and the set after the call.
calculateProjectSecondsWithClaiming(data, game, claimed) ==
    IF ~game.listed \/ Len(data.projects) = 0
        THEN [totalSeconds |-> 0, claimed |-> claimed]
    ELSE ClaimLoop(data, game.names, 1, [totalSeconds |-> 0, claimed |-> claimed])

\* uniqueUsers: the slack ids having a game with a non-empty project list,
\* in the order of their first game.
RECURSIVE UniqueUsers(_, _, _)
UniqueUsers(games, k, acc) ==
    IF k > Len(games) THEN acc
    ELSE LET g == games[k]
             has == \E j \in 1..Len(games) :
                        /\ games[j].slackId = g.slackId
                        /\ games[j].listed
                        /\ games[j].names # <<>>
             seen == \E j \in 1..Len(acc) : acc[j] = g.slackId
         IN  UniqueUsers(games, k + 1,
                 IF g.slackId # "" /\ has /\ ~seen THEN Append(acc, g.slackId) ELSE acc)

\* performFullSync after fetchAllGames: data[u] is userHackatimeData[u]
\* (the empty sequence when undefined), claimed[u] is userClaimedProjects[u],
\* written[i] the seconds sent to Airtable for game i (empty: no update).
SyncStart(games) ==
    [fn |-> "performFullSync", allGames |-> games,
     uniqueUsers |-> UniqueUsers(games, 1, <<>>), pc |-> "fetch", i |-> 1,
     data |-> [u \in SlackIds |-> <<>>], failed |-> {},
     claimed |-> [u \in SlackIds |-> {}],
     written |-> [k \in 1..Len(games) |-> <<>>], attempted |-> {},
     successCount |-> 0, errorCount |-> 0, skippedCount |-> 0]

\* The fetch loop with the failed user given empty statistics.
FetchUserStep_DefaultZero(p, out) ==
    LET u == p.uniqueUsers[p.i] IN
    IF out = <<>>
        THEN [p EXCEPT !.failed = @ \cup {u}, !.data[u] = <<[projects |-> <<>>]>>,
                       !.i = @ + 1]
    ELSE [p EXCEPT !.data[u] = out, !.i = @ + 1]

\* One pass of the fetch loop: retryWithBackoff(fetchHackatimeData) returns
\* the statistics, or throws and the user is left without an entry.
FetchUserStep(p, out) ==
    LET u == p.uniqueUsers[p.i] IN
    IF out = <<>> THEN [p EXCEPT !.failed = @ \cup {u}, !.i = @ + 1]
    ELSE [p EXCEPT !.data[u] = out, !.i = @ + 1]

\* One pass of the update loop for game p.i; ok is whether
\* retryWithBackoff(updateGameHackatimeSeconds) returns.
UpdateGameStep(p, ok) ==
    LET g == p.allGames[p.i]
        q == [p EXCEPT !.i = @ + 1]
    IN
    IF g.slackId = "" \/ ~g.listed
        THEN [q EXCEPT !.skippedCount = @ + 1]
    ELSE IF p.data[g.slackId] = <<>>
        THEN [q EXCEPT !.skippedCount = @ + 1]
    ELSE LET c == calculateProjectSecondsWithClaiming(
                      p.data[g.slackId][1], g, p.claimed[g.slackId])
             t == [q EXCEPT !.claimed[g.slackId] = c.claimed,
                            !.attempted = @ \cup {p.i}]
         IN  IF ok THEN [t EXCEPT !.written[p.i] = <<c.totalSeconds>>,
                                  !.successCount = @ + 1]
             ELSE [t EXCEPT !.errorCount = @ + 1]

InitFullSync ==
    /\ h = [r \in Reqs |-> Off]
    /\ fs = InitFs
    /\ srv = TRUE
    /\ nextId = 1
    /\ nextTmp = 1
    /\ repl = [r \in Reqs |-> "none"]
    /\ probe \in {SyncStart(g) : g \in UNION {[1..n -> GameRecords] : n \in 1..MaxGames}}
    /\ payloads = "none"
    /\ sync = SyncOff

FetchUser ==
    /\ probe.fn = "performFullSync"
    /\ probe.pc = "fetch"
    /\ probe.i <= Len(probe.uniqueUsers)
    /\ \E out \in {<<>>} \cup {<<d>> : d \in HackatimeData} :
          probe' = FetchUserStep(probe, out)
    /\ UNCHANGED <<h, fs, srv, nextId, nextTmp, repl, payloads, sync>>

\* The fetch loop is over: the claimed sets are made and the update loop
\* starts.
StartUpdates ==
    /\ probe.fn = "performFullSync"
    /\ probe.pc = "fetch"
    /\ probe.i > Len(probe.uniqueUsers)
    /\ probe' = [probe EXCEPT !.pc = "update", !.i = 1]
    /\ UNCHANGED <<h, fs, srv, nextId, nextTmp, repl, payloads, sync>>

UpdateGame ==
    /\ probe.fn = "performFullSync"
    /\ probe.pc = "update"
    /\ probe.i <= Len(probe.allGames)
    /\ \E ok \in BOOLEAN : probe' = UpdateGameStep(probe, ok)
    /\ UNCHANGED <<h, fs, srv, nextId, nextTmp, repl, payloads, sync>>

NextFullSync == FetchUser \/ StartUpdates \/ UpdateGame

SpecFullSync == InitFullSync /\ [][NextFullSync]_vars

\* The name in lower case, letter by letter.
Lower(name) == IF name = "A" THEN "a" ELSE IF name = "B" THEN "b" ELSE name

\* The names game k of the run lists, in lower case.
ListedBy(k) ==
    IF probe.allGames[k].listed
        THEN {Lower(probe.allGames[k].names[j]) : j \in 1..Len(probe.allGames[k].names)}
    ELSE {}

\* The seconds the statistics hold for the name n: those of the first
\* project with that name in any case, 0 when there is none.
SecondsOf(data, n) ==
    LET hits == {i \in 1..Len(data.projects) : Lower(data.projects[i].name) = n}
    IN  IF hits = {} THEN 0
        ELSE data.projects[CHOOSE i \in hits : \A j \in hits : i <= j].total_seconds

\* The values of the function f over the set S, added up.
RECURSIVE SumOver(_, _)
SumOver(S, f) ==
    IF S = {} THEN 0
    ELSE LET x == CHOOSE y \in S : TRUE IN f[x] + SumOver(S \ {x}, f)

\* The seconds game k is entitled to: those of the projects it lists that no
\* earlier game of its user lists.
Entitled(k) ==
    LET u == probe.allGames[k].slackId
        d == probe.data[u][1]
        mine == {n \in ListedBy(k) :
                    ~\E j \in 1..(k - 1) :
                        probe.allGames[j].slackId = u /\ n \in ListedBy(j)}
    IN  SumOver(mine, [n \in mine |-> SecondsOf(d, n)])

\* The games of user u that were updated, and the seconds written to them.
UpdatedGames(u) ==
    {k \in 1..Len(probe.allGames) :
        probe.allGames[k].slackId = u /\ probe.written[k] # <<>>}

WrittenTo(u) ==
    SumOver(UpdatedGames(u), [k \in UpdatedGames(u) |-> probe.written[k][1]])

\* The seconds of the distinct projects of the statistics.
DistinctSeconds(data) ==
    LET ps == {data.projects[i] : i \in 1..Len(data.projects)}
    IN  SumOver(ps, [q \in ps |-> q.total_seconds])

\* C32: in one run each project of a user gives its seconds to the first
\* game of that user, in processing order, that lists it in any case, and 0
\* to every later listing; the seconds written to the games of a user add
\* up to at most the seconds of the user's distinct projects.
C32_ProjectClaimedByFirstGame ==
    probe.fn = "performFullSync" =>
        /\ \A k \in 1..Len(probe.allGames) :
              probe.written[k] # <<>> => probe.written[k][1] = Entitled(k)
        /\ \A u \in SlackIds :
              probe.data[u] # <<>> => WrittenTo(u) <= DistinctSeconds(probe.data[u][1])

\* Two games of one user list the same project, the second in another case
\* and with a second project: the first got 5 seconds, the second only the
\* 7 of its other project.
C32_Witness ==
    /\ probe.fn = "performFullSync"
    /\ probe.pc = "update"
    /\ probe.i > Len(probe.allGames)
    /\ Len(probe.allGames) >= 2
    /\ probe.allGames[1].slackId = probe.allGames[2].slackId
    /\ probe.allGames[1].names = <<"a">>
    /\ probe.allGames[2].names = <<"A", "b">>
    /\ probe.written[1] = <<5>>
    /\ probe.written[2] = <<7>>

\* The update loop of the run has gone through the games 1..k-1.
Passed(k) == probe.pc = "update" /\ k < probe.i

\* The games the update loop has passed without sending an update: no slack
\* id, no project field, or a user whose statistics could not be fetched.
PassedWithoutUpdate ==
    {k \in 1..Len(probe.allGames) :
        /\ Passed(k)
        /\ \/ probe.allGames[k].slackId = ""
           \/ ~probe.allGames[k].listed
           \/ probe.allGames[k].slackId \in probe.failed}

\* C33: a user whose Hackatime statistics could not be fetched has no entry
\* in the run's data; none of that user's games is updated or attempted, each
\* is counted as skipped once, and the games of the other users are still
\* processed.
C33_FailedUserIsSkipped ==
    probe.fn = "performFullSync" =>
        /\ \A u \in probe.failed : probe.data[u] = <<>>
        /\ \A k \in 1..Len(probe.allGames) :
              probe.allGames[k].slackId \in probe.failed =>
                  probe.written[k] = <<>> /\ k \notin probe.attempted
        /\ probe.pc = "update" =>
              /\ probe.skippedCount = Cardinality(PassedWithoutUpdate)
              /\ probe.successCount + probe.errorCount + probe.skippedCount = probe.i - 1
              /\ \A j \in 1..Len(probe.uniqueUsers) :
                    probe.uniqueUsers[j] \in probe.failed
                        \/ probe.data[probe.uniqueUsers[j]] # <<>>
              /\ \A k \in 1..Len(probe.allGames) :
                    (/\ Passed(k)
                     /\ probe.allGames[k].listed
                     /\ probe.allGames[k].slackId # ""
                     /\ probe.allGames[k].slackId \notin probe.failed)
                    => k \in probe.attempted

\* The statistics of the user of the first game could not be fetched: that
\* game was skipped and the game of the other user, processed after it, was
\* updated.
C33_Witness ==
    /\ probe.fn = "performFullSync"
    /\ probe.pc = "update"
    /\ probe.i > Len(probe.allGames)
    /\ Len(probe.allGames) = 2
    /\ probe.allGames[1].listed
    /\ probe.allGames[1].slackId \in probe.failed
    /\ probe.written[1] = <<>>
    /\ probe.written[2] # <<>>
    /\ probe.skippedCount = 1
    /\ probe.successCount = 1

-----------------------------------------------------------------------------
(* The Home page: the token, the profile and the profile-fetch effect.     *)

\* The tokens a login stores and sets.
LoginTokens == {"A", "B"}

\* One run of the effect of lines 77-116: the token it closed over, its
\* isMounted flag and whether its fetch is in flight.
EffectRun(token, fetching) ==
    [token |-> token, isMounted |-> TRUE, pc |-> IF fetching THEN "fetching" ELSE "done"]

\* setToken(t) followed by the render React does for it: when the value
\* differs, the cleanup of the last run sets its isMounted to false and the
\* effect runs again: with no token it calls setProfile(null), else it starts
\* the fetch. null is the empty sequence.
SetTokenStep(p, t) ==
    IF t = p.token THEN p
    ELSE LET n == Len(p.effects)
             cleaned == [p.effects EXCEPT ![n].isMounted = FALSE]
         IN  [p EXCEPT !.token = t,
                       !.effects = Append(cleaned, EffectRun(t, t # <<>>)),
                       !.profile = IF t = <<>> THEN <<>> ELSE @]

\* The first render: token and profile are null, the effect ran once without
\* a token; stored is the localStorage item, which the effect of lines 69-74
\* has still to read.
HomeStart(stored) ==
    [fn |-> "Home", token |-> <<>>, profile |-> <<>>, storage |-> stored,
     mounted |-> TRUE, loaded |-> FALSE, logins |-> 0,
     effects |-> <<EffectRun(<<>>, FALSE)>>]

\* The effect of lines 69-74: the stored token, if any, is set.
LoadStoredStep(p) ==
    LET q == [p EXCEPT !.loaded = TRUE] IN
    IF p.storage # <<>> THEN SetTokenStep(q, p.storage) ELSE q

\* A login: verifyOtp stores the token (line 141) and the start screen calls
\* setToken with it.
LoginStep(p, t) ==
    SetTokenStep([p EXCEPT !.storage = <<t>>, !.logins = @ + 1], <<t>>)

\* The component is removed: the cleanup of the last run of the effect runs.
UnmountStep(p) ==
    [p EXCEPT !.mounted = FALSE, !.effects[Len(p.effects)].isMounted = FALSE]

\* The guard taking every run for a live one.
StillMounted_Always(run) == TRUE

\* if (isMounted)
StillMounted(run) == run.isMounted

\* localStorage.removeItem("token"); setToken(null); setProfile(null)
LogOut(p) ==
    [SetTokenStep([p EXCEPT !.storage = <<>>], <<>>) EXCEPT !.profile = <<>>]

\* The fetch of run e settles: res.ok with data.ok and the profile of the
\* run's token, status 401, another status, or a rejected fetch.
ResponseStep(p, e, out) ==
    LET run == p.effects[e]
        q == [p EXCEPT !.effects[e].pc = "done"]
    IN  IF ~StillMounted(run) THEN q
        ELSE IF out = "ok" THEN [q EXCEPT !.profile = run.token]
        ELSE IF out \in {"401", "error"} THEN LogOut(q)
        ELSE q

InitHome ==
    /\ h = [r \in Reqs |-> Off]
    /\ fs = InitFs
    /\ srv = TRUE
    /\ nextId = 1
    /\ nextTmp = 1
    /\ repl = [r \in Reqs |-> "none"]
    /\ probe \in {HomeStart(st) : st \in {<<>>} \cup {<<t>> : t \in LoginTokens}}
    /\ payloads = "none"
    /\ sync = SyncOff

LoadStored ==
    /\ probe.fn = "Home"
    /\ probe.mounted /\ ~probe.loaded
    /\ probe' = LoadStoredStep(probe)
    /\ UNCHANGED <<h, fs, srv, nextId, nextTmp, repl, payloads, sync>>

Login ==
    /\ probe.fn = "Home"
    /\ probe.mounted /\ probe.loaded
    /\ probe.logins < MaxLogins
    /\ \E t \in LoginTokens : probe' = LoginStep(probe, t)
    /\ UNCHANGED <<h, fs, srv, nextId, nextTmp, repl, payloads, sync>>

Unmount ==
    /\ probe.fn = "Home"
    /\ probe.mounted
    /\ probe' = UnmountStep(probe)
    /\ UNCHANGED <<h, fs, srv, nextId, nextTmp, repl, payloads, sync>>

Response ==
    /\ probe.fn = "Home"
    /\ \E e \in 1..Len(probe.effects), out \in {"ok", "401", "500", "error"} :
          /\ probe.effects[e].pc = "fetching"
          /\ probe' = ResponseStep(probe, e, out)
    /\ UNCHANGED <<h, fs, srv, nextId, nextTmp, repl, payloads, sync>>

NextHome == LoadStored \/ Login \/ Unmount \/ Response

SpecHome == InitHome /\ [][NextHome]_vars

\* The fetch of run e settles in this step.
Settles(e) ==
    /\ e <= Len(probe.effects)
    /\ probe.effects[e].pc = "fetching"
    /\ probe'.effects[e].pc = "done"

\* Run e is not the run for the current token of a mounted component.
Superseded(e) == e < Len(probe.effects) \/ ~probe.mounted

====
